---- MODULE Spec2Model ----
(***************************************************************************)
(* Verification model of the mothtools language front-end (crucible) and   *)
(* of the lantern Probability type.                                        *)
(*                                                                         *)
(* Three state machines share the variables below:                         *)
(*   SpecProb   - one Probability value and the operations of its public   *)
(*                interface (mothlib/lantern/mod.rs).                      *)
(*   SpecParse  - the nom parsers of crucible/parser applied to source     *)
(*                texts drawn from bounded sets.                           *)
(*   Spec       - one run of parser::parse(files) over a list of files.    *)
(***************************************************************************)
EXTENDS Integers, Sequences, FiniteSets, TLC

VARIABLES
    p,        \* Option<Probability>: the Probability value under observation
    ctor,     \* the integer p was constructed with (history)
    last,     \* the value returned by the last Probability operation
    input,    \* SpecParse: the source text handed to a parser
    result,   \* SpecParse: what the parser returned for input
    files,    \* Spec: the Vec<PathBuf> given to parse, each with its content
    idx,      \* Spec: the position of `for file in files`
    master,   \* Spec: the Crucible being assembled
    errored,  \* Spec: the flag `errored`
    log,      \* Spec: the errors reported by event!(Level::ERROR, ..)
    pc,       \* Spec: "loop", or how the run ended: "ok", "err", "panicked"
    pinput,          \* SpecPipe: the Vec<Record> given to execute_pipeline
    fed,             \* SpecPipe: how many records the feeder task has sent
    feeder,          \* SpecPipe: the feeder task, "run" or "done" (tx dropped)
    from_last_step,  \* SpecPipe: the channel from the feeder to the stage
    held,            \* SpecPipe: the record the stage took and has not emitted
    stage,           \* SpecPipe: the stage task, "recv", "send" or "done"
    to_next_step,    \* SpecPipe: the channel from the stage to the collector
    to_errs,         \* SpecPipe: the stage's error channel
    records,         \* SpecPipe: the Vec<Record> collected by execute_pipeline
    errlog,          \* SpecPipe: the errors reported by event!(Level::ERROR, ..)
    main             \* SpecPipe: execute_pipeline, "collect", "errors", "ok", "err"

probVars == <<p, ctor, last>>
parseVars == <<input, result>>
runVars == <<files, idx, master, errored, log, pc>>
pipeVars == <<pinput, fed, feeder, from_last_step, held, stage, to_next_step,
              to_errs, records, errlog, main>>
vars == <<p, ctor, last, input, result, files, idx, master, errored, log, pc,
          pinput, fed, feeder, from_last_step, held, stage, to_next_step,
          to_errs, records, errlog, main>>

(***************************************************************************)
(* Probability (mothlib/lantern/mod.rs)                                    *)
(***************************************************************************)
U8Max == 255
U8 == 0..U8Max

None == [tag |-> "None"]
Some(v) == [tag |-> "Some", val |-> v]

\* A range pattern that forgets the upper end point.
ProbabilityNewExclusive(value) ==
    IF value >= 0 /\ value < 100
        THEN [tag |-> "Ok", val |-> [inner |-> value]]
        ELSE [tag |-> "Err", err |-> "a probability value must be an integer in the range 0..=100"]

\* Probability::new
ProbabilityNew(value) ==
    IF value >= 0 /\ value <= 100
        THEN [tag |-> "Ok", val |-> [inner |-> value]]
        ELSE [tag |-> "Err", err |-> "a probability value must be an integer in the range 0..=100"]

\* impl TryFrom<u8> for Probability
ProbabilityTryFrom(value) == ProbabilityNew(value)

\* impl From<Probability> for u8
U8FromProbability(prob) == prob.inner

\* impl Deref for Probability
ProbabilityDeref(prob) == prob.inner

\* The values a caller stores through the &mut u8 handed out by deref_mut.
WriteVals == {0, 1, 50, 100, 101, 200, U8Max}

ProbIdle ==
    /\ p = None
    /\ ctor = 0
    /\ last = [op |-> "none", arg |-> 0, res |-> None]

ParseIdle ==
    /\ input = [kind |-> "none", hid |-> "", decays |-> "", items |-> << >>,
                lines |-> << >>, text |-> ""]
    /\ result = [fn |-> "none", k |-> "None", rest |-> "", val |-> ""]

\* Crucible::empty
Crucible_empty == [attributes |-> << >>, units |-> << >>]

RunIdle ==
    /\ files = << >>
    /\ idx = 1
    /\ master = Crucible_empty
    /\ errored = FALSE
    /\ log = << >>
    /\ pc = "idle"

PipeIdle ==
    /\ pinput = << >>
    /\ fed = 0
    /\ feeder = "idle"
    /\ from_last_step = << >>
    /\ held = << >>
    /\ stage = "idle"
    /\ to_next_step = << >>
    /\ to_errs = << >>
    /\ records = << >>
    /\ errlog = << >>
    /\ main = "idle"

InitProb ==
    /\ ProbIdle
    /\ PipeIdle
    /\ ParseIdle
    /\ RunIdle

\* let r = Probability::new(value); a successful r becomes the observed value.
\* The caller observes one value at a time: it constructs the next one after
\* dropping the one it holds.
New(value) ==
    LET r == ProbabilityNew(value) IN
    /\ p.tag = "None"
    /\ last' = [op |-> "new", arg |-> value, res |-> r]
    /\ IF r.tag = "Ok"
          THEN p' = Some(r.val) /\ ctor' = value
          ELSE UNCHANGED <<p, ctor>>

\* let r = Probability::try_from(value)
TryFrom(value) ==
    LET r == ProbabilityTryFrom(value) IN
    /\ p.tag = "None"
    /\ last' = [op |-> "try_from", arg |-> value, res |-> r]
    /\ IF r.tag = "Ok"
          THEN p' = Some(r.val) /\ ctor' = value
          ELSE UNCHANGED <<p, ctor>>

\* let n: u8 = p.into()   (Probability is Copy: p stays usable)
IntoU8 ==
    /\ p.tag = "Some"
    /\ last' = [op |-> "into", arg |-> 0, res |-> Some(U8FromProbability(p.val))]
    /\ UNCHANGED <<p, ctor>>

\* let n: u8 = *p
Deref ==
    /\ p.tag = "Some"
    /\ last' = [op |-> "deref", arg |-> 0, res |-> Some(ProbabilityDeref(p.val))]
    /\ UNCHANGED <<p, ctor>>

\* *p = value   (deref_mut returns &mut self.inner, the store goes through it)
DerefMut(value) ==
    /\ p.tag = "Some"
    /\ p' = Some([p.val EXCEPT !.inner = value])
    /\ last' = [op |-> "deref_mut", arg |-> value, res |-> None]
    /\ UNCHANGED ctor

\* drop(p)
Drop ==
    /\ p.tag = "Some"
    /\ p' = None
    /\ ctor' = 0
    /\ last' = [op |-> "drop", arg |-> 0, res |-> None]

NextProb ==
    \/ \E value \in U8 : New(value) /\ UNCHANGED <<parseVars, runVars, pipeVars>>
    \/ \E value \in U8 : TryFrom(value) /\ UNCHANGED <<parseVars, runVars, pipeVars>>
    \/ IntoU8 /\ UNCHANGED <<parseVars, runVars, pipeVars>>
    \/ Deref /\ UNCHANGED <<parseVars, runVars, pipeVars>>
    \/ \E value \in WriteVals : DerefMut(value) /\ UNCHANGED <<parseVars, runVars, pipeVars>>
    \/ Drop /\ UNCHANGED <<parseVars, runVars, pipeVars>>

SpecProb == InitProb /\ [][NextProb]_vars

\* C1: for every p in 0..=100 Probability::new(p) succeeds and converting the
\* result back to u8 yields p; for every p in 101..=255 it returns an error
\* and no Probability value.
C1_NewRoundTrip ==
    last.op = "new" =>
        /\ last.arg \in 0..100 =>
              /\ last.res.tag = "Ok"
              /\ U8FromProbability(last.res.val) = last.arg
        /\ last.arg \in 101..U8Max => last.res.tag = "Err"

\* Probability::new(100), the largest valid argument, succeeded and the value
\* it returned converts back to 100.
C1_Witness ==
    /\ last.op = "new"
    /\ last.arg = 100
    /\ last.res.tag = "Ok"
    /\ U8FromProbability(last.res.val) = 100
    /\ p = Some(last.res.val)

\* C2: a Probability is immutable once constructed: after any sequence of
\* operations of its public interface it still holds an integer in 0..=100,
\* the one it was constructed with.
C2_Immutable ==
    p.tag = "Some" => p.val.inner \in 0..100 /\ p.val.inner = ctor

(***************************************************************************)
(* Source text and nom results                                             *)
(*                                                                         *)
(* A source text is a string; Rest(s, n) is the &str slice s[n..].  A      *)
(* parser returns an IResult: Ok((rest, val)), Err(Error(code)) which the  *)
(* enclosing alt/opt/list recovers from, or Err(Failure(code)) which they  *)
(* hand on.  A panic (todo!, unimplemented!) unwinds through every caller, *)
(* it is the fourth outcome "Panic".                                       *)
(***************************************************************************)
Rest(s, n) == SubSeq(s, n + 1, Len(s))
Take(s, n) == SubSeq(s, 1, n)
CharAt(s, i) == SubSeq(s, i, i)
CharsOf(s) == {SubSeq(s, i, i) : i \in 1..Len(s)}
StartsWith(s, t) == Len(s) >= Len(t) /\ Take(s, Len(t)) = t

POk(rest, val) == [k |-> "Ok", rest |-> rest, val |-> val]
PError(rest, code) == [k |-> "Error", rest |-> rest, val |-> code]
PFailure(rest, code) == [k |-> "Failure", rest |-> rest, val |-> code]
PPanic(msg) == [k |-> "Panic", rest |-> "", val |-> msg]

UpperChars == "ABCDEFGHIJKLMNOPQRSTUVWXYZ"
LowerChars == "abcdefghijklmnopqrstuvwxyz"
DigitChars == "0123456789"
SpaceChars == {" ", "\t", "\r", "\n"}

\* char::to_lowercase on one character
LowerChar(c) ==
    IF c \in CharsOf(UpperChars)
        THEN CharAt(LowerChars, CHOOSE i \in 1..Len(UpperChars) : CharAt(UpperChars, i) = c)
        ELSE c

\* str::to_lowercase
RECURSIVE ToLowercase(_)
ToLowercase(s) ==
    IF s = "" THEN "" ELSE LowerChar(CharAt(s, 1)) \o ToLowercase(Rest(s, 1))

\* the number of leading characters of s[i..] that lie in cs, plus i
RECURSIVE PrefixLen(_, _, _)
PrefixLen(s, cs, i) ==
    IF i < Len(s) /\ CharAt(s, i + 1) \in cs THEN PrefixLen(s, cs, i + 1) ELSE i

\* nom::character::complete::multispace0
multispace0(s) ==
    LET n == PrefixLen(s, SpaceChars, 0) IN POk(Rest(s, n), Take(s, n))

\* nom::character::complete::multispace1
multispace1(s) ==
    LET n == PrefixLen(s, SpaceChars, 0) IN
    IF n = 0 THEN PError(s, "MultiSpace") ELSE POk(Rest(s, n), Take(s, n))

\* the text left after leading whitespace
SkipWs(s) == multispace0(s).rest

\* nom::bytes::complete::tag
tag(t, s) ==
    IF StartsWith(s, t) THEN POk(Rest(s, Len(t)), t) ELSE PError(s, "Tag")

\* nom::bytes::complete::tag_no_case
tag_no_case(t, s) ==
    IF Len(s) >= Len(t) /\ ToLowercase(Take(s, Len(t))) = ToLowercase(t)
        THEN POk(Rest(s, Len(t)), Take(s, Len(t)))
        ELSE PError(s, "Tag")

\* nom::character::complete::char
char(c, s) ==
    IF StartsWith(s, c) THEN POk(Rest(s, 1), c) ELSE PError(s, "Char")

\* nom::character::complete::line_ending
line_ending(s) ==
    IF StartsWith(s, "\n") THEN POk(Rest(s, 1), "\n")
    ELSE IF StartsWith(s, "\r\n") THEN POk(Rest(s, 2), "\r\n")
    ELSE PError(s, "CrLf")

\* ws(inner) = delimited(multispace0, inner, multispace0): r is the result of
\* inner on the text after leading whitespace, ws(r) drops the trailing one
ws(r) == IF r.k = "Ok" THEN POk(SkipWs(r.rest), r.val) ELSE r

\* nom::combinator::opt: r is the result of the inner parser on s
opt(r, s) ==
    IF r.k = "Ok" THEN POk(r.rest, Some(r.val))
    ELSE IF r.k = "Error" THEN POk(s, None)
    ELSE r

DefKeyChars == CharsOf(LowerChars) \cup CharsOf(UpperChars) \cup CharsOf(DigitChars)
                   \cup {"_", "-", "$", "."}

\* defkey: take_while1 over the DefKey alphabet
defkey(s) ==
    LET n == PrefixLen(s, DefKeyChars, 0) IN
    IF n = 0 THEN PError(s, "TakeWhile1") ELSE POk(Rest(s, n), Take(s, n))

DigitVal(c) == (CHOOSE i \in 1..Len(DigitChars) : CharAt(DigitChars, i) = c) - 1

(***************************************************************************)
(* nom::character::complete::{u8, u32, i32}.  The accumulator overflows    *)
(* (checked_mul / checked_add return None) when it would pass the type's   *)
(* limit; the limit is given as limit = 10 * q + r so that the test never  *)
(* forms a number beyond it.                                               *)
(***************************************************************************)
RECURSIVE UintLoop(_, _, _, _, _)
UintLoop(s, pos, value, q, r) ==
    IF pos >= Len(s) THEN POk("", value)
    ELSE LET c == CharAt(s, pos + 1) IN
         IF c \notin CharsOf(DigitChars)
             THEN IF pos = 0 THEN PError(s, "Digit") ELSE POk(Rest(s, pos), value)
         ELSE IF value > q \/ (value = q /\ DigitVal(c) > r)
             THEN PError(s, "Digit")
         ELSE UintLoop(s, pos + 1, value * 10 + DigitVal(c), q, r)

uint(s, q, r) == IF s = "" THEN PError(s, "Digit") ELSE UintLoop(s, 0, 0, q, r)

\* u8::MAX = 255
u8(s) == uint(s, U8Max \div 10, U8Max % 10)

\* u32::MAX = 4294967295
u32(s) == uint(s, 429496729, 5)

\* i32::MAX = 2147483647, i32::MIN = -2147483648; the accumulator holds the
\* magnitude, the sign is applied on return
i32(s) ==
    LET neg == StartsWith(s, "-")
        body == IF neg \/ StartsWith(s, "+") THEN Rest(s, 1) ELSE s
        m == uint(body, 214748364, IF neg THEN 8 ELSE 7)
    IN  IF m.k = "Ok" THEN POk(m.rest, IF neg THEN 0 - m.val ELSE m.val)
        ELSE PError(s, "Digit")

\* chance: pair(verify(u8, 0..=100), opt(char('%'))), then Probability::new
chance(s) ==
    LET num == u8(s) IN
    IF num.k # "Ok" THEN num
    ELSE IF ~(num.val >= 0 /\ num.val <= 100) THEN PError(s, "Verify")
    ELSE LET pct == char("%", num.rest)
             remain == IF pct.k = "Ok" THEN pct.rest ELSE num.rest
             prob == ProbabilityNew(num.val)
         IN  IF prob.tag = "Ok" THEN POk(remain, prob.val)
             ELSE PPanic("Parser failed to uphold Probability invariant!")

(***************************************************************************)
(* string::parse and json::parse.  The modules crucible/parser/string.rs   *)
(* and mothlib/lantern/json are declared (mod string; pub mod json;) but   *)
(* their files are not part of the sources at hand; they are modelled from *)
(* the specification's literal-value parser: a double-quoted string with   *)
(* backslash escapes, and the literals null, true, false, integer, string, *)
(* array and object.                                                       *)
(***************************************************************************)
Unescape(c) == IF c = "n" THEN "\n" ELSE IF c = "t" THEN "\t" ELSE IF c = "r" THEN "\r" ELSE c

RECURSIVE StringBody(_, _, _)
StringBody(s, pos, acc) ==
    IF pos >= Len(s) THEN PError(s, "Char")
    ELSE LET c == CharAt(s, pos + 1) IN
         IF c = "\"" THEN POk(Rest(s, pos + 1), acc)
         ELSE IF c = "\\"
             THEN IF pos + 1 >= Len(s) THEN PError(s, "Char")
                  ELSE StringBody(s, pos + 2, acc \o Unescape(CharAt(s, pos + 2)))
         ELSE StringBody(s, pos + 1, acc \o c)

\* string::parse
string_parse(s) ==
    IF StartsWith(s, "\"") THEN StringBody(s, 1, "") ELSE PError(s, "Char")

\* json::Value::{Null, Boolean, Number, Str, Array, Object}
Value(j, v) == [j |-> j, v |-> v]

\* HashMap::insert: the map after the insertion
MapInsert(map, key, val) == [x \in DOMAIN map \cup {key} |-> IF x = key THEN val ELSE map[x]]
EmptyMap == [x \in {} |-> 0]

RECURSIVE json_parse(_)
RECURSIVE JsonElements(_, _)
RECURSIVE JsonMembers(_, _)

\* the elements of an array, s is the text after '[' or ','
JsonElements(s, acc) ==
    LET e == json_parse(SkipWs(s)) IN
    IF e.k # "Ok" THEN e
    ELSE LET r == SkipWs(e.rest) IN
         IF StartsWith(r, ",") THEN JsonElements(Rest(r, 1), Append(acc, e.val))
         ELSE IF StartsWith(r, "]") THEN POk(Rest(r, 1), Value("Array", Append(acc, e.val)))
         ELSE PError(r, "Char")

\* the members of an object, s is the text after '{' or ','
JsonMembers(s, acc) ==
    LET key == string_parse(SkipWs(s)) IN
    IF key.k # "Ok" THEN key
    ELSE LET c == SkipWs(key.rest) IN
         IF ~StartsWith(c, ":") THEN PError(c, "Char")
         ELSE LET e == json_parse(SkipWs(Rest(c, 1))) IN
              IF e.k # "Ok" THEN e
              ELSE LET r == SkipWs(e.rest)
                       m == MapInsert(acc, key.val, e.val)
                   IN  IF StartsWith(r, ",") THEN JsonMembers(Rest(r, 1), m)
                       ELSE IF StartsWith(r, "}") THEN POk(Rest(r, 1), Value("Object", m))
                       ELSE PError(r, "Char")

\* json::parse
json_parse(s) ==
    IF StartsWith(s, "null") THEN POk(Rest(s, 4), Value("Null", ""))
    ELSE IF StartsWith(s, "true") THEN POk(Rest(s, 4), Value("Boolean", TRUE))
    ELSE IF StartsWith(s, "false") THEN POk(Rest(s, 5), Value("Boolean", FALSE))
    ELSE IF StartsWith(s, "\"")
        THEN LET str == string_parse(s) IN
             IF str.k = "Ok" THEN POk(str.rest, Value("Str", str.val)) ELSE str
    ELSE IF StartsWith(s, "[")
        THEN IF StartsWith(SkipWs(Rest(s, 1)), "]")
                 THEN POk(Rest(SkipWs(Rest(s, 1)), 1), Value("Array", << >>))
                 ELSE JsonElements(Rest(s, 1), << >>)
    ELSE IF StartsWith(s, "{")
        THEN IF StartsWith(SkipWs(Rest(s, 1)), "}")
                 THEN POk(Rest(SkipWs(Rest(s, 1)), 1), Value("Object", EmptyMap))
                 ELSE JsonMembers(Rest(s, 1), EmptyMap)
    ELSE LET n == i32(s) IN
         IF n.k = "Ok" THEN POk(n.rest, Value("Number", n.val)) ELSE PError(s, "Alt")

(***************************************************************************)
(* hidden, xtrigger, slot (crucible/parser/mod.rs)                         *)
(***************************************************************************)
\* alt of two results: the second is tried when the first is a plain Error
Alt(r1, r2) == IF r1.k = "Error" THEN r2 ELSE r1

\* the texts a sub-parser of a parser on s can be handed
Suffixes(s) == {Rest(s, n) : n \in 0..Len(s)}

\* one parser of a sequence (nom's tuple, pair, preceded, delimited,
\* separated_pair): st is the result of the parsers before it, its value the
\* record of their values under their names; f, the parser, is a function
\* from a text to a result and is applied to what st left over
Then(st, name, f) ==
    IF st.k # "Ok" THEN st
    ELSE LET r == f[st.rest] IN
         IF r.k # "Ok" THEN r
         ELSE POk(r.rest, [x \in DOMAIN st.val \cup {name} |->
                               IF x = name THEN r.val ELSE st.val[x]])

\* hidden
hidden(s) ==
    LET done(r) == IF r.k = "Ok" THEN POk(r.rest, "") ELSE r
    IN  done(Alt(tag("hidden", s), tag("?", s)))

WsTag(t, s) == ws(tag(t, SkipWs(s)))
WsTagNoCase(t, s) == ws(tag_no_case(t, SkipWs(s)))
WsChar(c, s) == ws(char(c, SkipWs(s)))

\* the common shape of spawn, mutate and transform after their keyword:
\* multispace0, defkey, char(':'), amount, multispace0, opt(chance), multispace0
\* the amount of a mutate is an i32, of a spawn or transform a u32
XtriggerTail(kind, s) ==
    LET done(st) ==
            IF st.k # "Ok" THEN st
            ELSE POk(SkipWs(st.rest),
                     [kind |-> kind, target |-> st.val.target, amount |-> st.val.amount,
                      chance |-> IF st.val.chance.tag = "Some" THEN st.val.chance.val
                                 ELSE ProbabilityNew(100).val])
    IN  done(Then(Then(Then(Then(POk(s, << >>),
                  "target", [i \in Suffixes(s) |-> defkey(SkipWs(i))]),
                  "colon", [i \in Suffixes(s) |-> char(":", i)]),
                  "amount", [i \in Suffixes(s) |-> IF kind = "Mutate" THEN i32(i) ELSE u32(i)]),
                  "chance", [i \in Suffixes(s) |-> opt(chance(SkipWs(i)), SkipWs(i))]))

\* xtrigger::spawn
spawn(s) ==
    LET done(st) == IF st.k # "Ok" THEN st ELSE POk(st.rest, st.val.tail)
    IN  done(Then(Then(POk(s, << >>),
                  "kw", [i \in Suffixes(s) |-> WsTagNoCase("spawn", i)]),
                  "tail", [i \in Suffixes(s) |-> XtriggerTail("Spawn", i)]))

\* xtrigger::mutate
mutate(s) ==
    LET done(st) == IF st.k # "Ok" THEN st ELSE POk(st.rest, st.val.tail)
    IN  done(Then(Then(POk(s, << >>),
                  "kw", [i \in Suffixes(s) |-> WsTagNoCase("mutate", i)]),
                  "tail", [i \in Suffixes(s) |-> XtriggerTail("Mutate", i)]))

\* xtrigger::transform
transform(s) == XtriggerTail("Transform", s)

\* xtrigger::basic with the written chance dropped
basicChanceDropped(s) ==
    LET done(st) ==
            IF st.k # "Ok" THEN st
            ELSE POk(st.rest,
                     [kind |-> "Transform", target |-> st.val.target, amount |-> 1,
                      chance |-> ProbabilityNew(100).val])
    IN  done(Then(Then(POk(s, << >>),
                  "target", [i \in Suffixes(s) |-> ws(defkey(SkipWs(i)))]),
                  "chance", [i \in Suffixes(s) |-> opt(ws(chance(SkipWs(i))), i)]))

\* xtrigger::basic
basic(s) ==
    LET done(st) ==
            IF st.k # "Ok" THEN st
            ELSE POk(st.rest,
                     [kind |-> "Transform", target |-> st.val.target, amount |-> 1,
                      chance |-> IF st.val.chance.tag = "Some" THEN st.val.chance.val
                                 ELSE ProbabilityNew(100).val])
    IN  done(Then(Then(POk(s, << >>),
                  "target", [i \in Suffixes(s) |-> ws(defkey(SkipWs(i)))]),
                  "chance", [i \in Suffixes(s) |-> opt(ws(chance(SkipWs(i))), i)]))

\* xtrigger
xtrigger(s) ==
    LET trigger(catalyst, inner) ==
            CASE inner.kind = "Transform" ->
                    [x |-> "Transform", catalyst |-> catalyst,
                     transforms_to |-> inner.target,
                     amount |-> inner.amount, chance |-> inner.chance]
              [] inner.kind = "Spawn" ->
                    [x |-> "Spawn", catalyst |-> catalyst, creates |-> inner.target,
                     amount |-> inner.amount, chance |-> inner.chance]
              [] inner.kind = "Mutate" ->
                    [x |-> "Mutate", catalyst |-> catalyst,
                     adds_to_catalyst |-> inner.target,
                     amount |-> inner.amount, chance |-> inner.chance]
        done(st) ==
            IF st.k # "Ok" THEN st
            ELSE POk(st.rest, trigger(st.val.catalyst, st.val.inner))
    IN  done(Then(Then(Then(Then(POk(s, << >>),
                  "kw", [i \in Suffixes(s) |-> WsTag("xtrigger", i)]),
                  "catalyst", [i \in Suffixes(s) |-> ws(defkey(SkipWs(i)))]),
                  "arrow", [i \in Suffixes(s) |-> WsTag("->", i)]),
                  "inner", [i \in Suffixes(s) |-> Alt(ws(spawn(SkipWs(i))),
                      Alt(ws(mutate(SkipWs(i))),
                      Alt(ws(transform(SkipWs(i))),
                      ws(basic(SkipWs(i))))))]))

\* ws(tag(t)) when exact, ws(tag_no_case(t)) otherwise
WsWord(exact, t, s) == IF exact THEN WsTag(t, s) ELSE WsTagNoCase(t, s)

\* nom::branch::permutation((ws(a), ws(b))) over two words: either order in
\* the text, the values in the order of the parsers
Permutation(exact, a, b, s) ==
    LET second(ra, rb) ==
            IF rb.k = "Ok" THEN POk(rb.rest, <<ra.val, rb.val>>)
            ELSE IF rb.k = "Error" THEN PError(ra.rest, "Permutation")
            ELSE rb
        first(rb, ra2) ==
            IF ra2.k = "Ok" THEN POk(ra2.rest, <<ra2.val, rb.val>>)
            ELSE IF ra2.k = "Error" THEN PError(rb.rest, "Permutation")
            ELSE ra2
        other(rb) ==
            IF rb.k = "Ok" THEN first(rb, WsWord(exact, a, rb.rest))
            ELSE IF rb.k = "Error" THEN PError(s, "Permutation")
            ELSE rb
        start(ra) ==
            IF ra.k = "Ok" THEN second(ra, WsWord(exact, b, ra.rest))
            ELSE IF ra.k = "Error" THEN other(WsWord(exact, b, s))
            ELSE ra
    IN  start(WsWord(exact, a, s))

\* pair(success(""), ws(word)) when first is FALSE, pair(ws(word), success(""))
\* when it is TRUE
PairSuccess(first, exact, t, s) ==
    LET done(r) ==
            IF r.k # "Ok" THEN r
            ELSE POk(r.rest, IF first THEN <<r.val, "">> ELSE <<"", r.val>>)
    IN  done(WsWord(exact, t, s))

\* slot::slotkind, returns (isConsume, isGreedy)
slotkind(s) ==
    LET done(r) ==
            IF r.k # "Ok" THEN r
            ELSE POk(r.rest,
                     [isConsume |-> IF ToLowercase(r.val[1]) \in {"!", "consume"}
                                        THEN Some("") ELSE None,
                      isGreedy  |-> IF ToLowercase(r.val[2]) \in {"?", "greedy"}
                                        THEN Some("") ELSE None])
    IN  done(Alt(Permutation(TRUE, "!", "?", s),
             Alt(Permutation(FALSE, "consume", "greedy", s),
             Alt(PairSuccess(FALSE, TRUE, "!", s),
             Alt(PairSuccess(TRUE, TRUE, "?", s),
             Alt(PairSuccess(FALSE, FALSE, "consume", s),
                 PairSuccess(TRUE, FALSE, "greedy", s)))))))

\* slot::slotfilter
slotfilter(s) ==
    LET done(st) ==
            IF st.k # "Ok" THEN st
            ELSE POk(st.rest,
                     [f |-> IF st.val.forbid.tag = "Some" THEN "Accept" ELSE "Forbid",
                      element |-> st.val.element, amount |-> st.val.amount])
    IN  done(Then(Then(Then(Then(POk(s, << >>),
                  "forbid", [i \in Suffixes(s) |-> opt(char("!", i), i)]),
                  "element", [i \in Suffixes(s) |-> defkey(i)]),
                  "colon", [i \in Suffixes(s) |-> char(":", i)]),
                  "amount", [i \in Suffixes(s) |-> u32(i)]))

(***************************************************************************)
(* Statements of component bodies (aspect.rs, card.rs, deck.rs)            *)
(***************************************************************************)
RECURSIVE slot(_)
RECURSIVE unit(_)

\* aspect_statement::set / card_statement::set
\* pair(ws(tag_no_case("set")), separated_pair(ws(defkey), char('='), ws(json::parse)))
set(s) ==
    LET done(st) ==
            IF st.k # "Ok" THEN st
            ELSE POk(st.rest, [st |-> "Set", key |-> st.val.key, val |-> st.val.val])
    IN  done(Then(Then(Then(Then(POk(s, << >>),
                  "kw", [i \in Suffixes(s) |-> WsTagNoCase("set", i)]),
                  "key", [i \in Suffixes(s) |-> ws(defkey(SkipWs(i)))]),
                  "eq", [i \in Suffixes(s) |-> char("=", i)]),
                  "val", [i \in Suffixes(s) |-> ws(json_parse(SkipWs(i)))]))

\* aspect_statement::induce / card_statement::induce
induce(s) ==
    LET done(st) ==
            IF st.k # "Ok" THEN st
            ELSE POk(st.rest, [st |-> "Induce", key |-> st.val.key,
                               chance |-> st.val.chance])
    IN  done(Then(Then(Then(POk(s, << >>),
                  "kw", [i \in Suffixes(s) |-> WsTagNoCase("induce", i)]),
                  "key", [i \in Suffixes(s) |-> ws(defkey(SkipWs(i)))]),
                  "chance", [i \in Suffixes(s) |-> ws(chance(SkipWs(i)))]))

\* aspect_statement::xtrigger / card_statement::xtrigger
xtrigger_statement(s) ==
    LET done(x) ==
            IF x.k # "Ok" THEN x ELSE POk(x.rest, [st |-> "Xtrigger", xtrigger |-> x.val])
    IN  done(xtrigger(s))

\* aspect_statement
aspect_statement(s) ==
    Alt(ws(set(SkipWs(s))), Alt(ws(induce(SkipWs(s))), ws(xtrigger_statement(SkipWs(s)))))

\* card_statement::unique
unique(s) ==
    LET done(st) ==
            IF st.k # "Ok" THEN st
            ELSE POk(st.rest, [st |-> "Unique", uqgroup |-> st.val.uqgroup])
    IN  done(Then(Then(POk(s, << >>),
                  "kw", [i \in Suffixes(s) |-> WsTagNoCase("unique", i)]),
                  "uqgroup", [i \in Suffixes(s) |-> opt(ws(defkey(SkipWs(i))), i)]))

\* card_statement::card_slot
card_slot(s) ==
    LET done(st) ==
            IF st.k # "Ok" THEN st
            ELSE POk(st.rest, [st |-> "Slot", verb |-> st.val.key, slot |-> st.val.slot])
    IN  done(Then(Then(Then(POk(s, << >>),
                  "key", [i \in Suffixes(s) |-> defkey(i)]),
                  "arrow", [i \in Suffixes(s) |-> WsTag("->", i)]),
                  "slot", [i \in Suffixes(s) |-> slot(i)]))

\* card_statement
card_statement(s) ==
    Alt(ws(set(SkipWs(s))), Alt(ws(induce(SkipWs(s))), Alt(ws(unique(SkipWs(s))),
        Alt(ws(card_slot(SkipWs(s))), ws(xtrigger_statement(SkipWs(s)))))))

\* card_aspects::card_aspect: alt of the bare id (degree 1) and id ':' degree
card_aspect(s) ==
    LET bare(r) == IF r.k # "Ok" THEN r ELSE POk(r.rest, <<r.val, 1>>)
        keyed(st) ==
            IF st.k # "Ok" THEN st ELSE POk(st.rest, <<st.val.key, st.val.degree>>)
    IN  Alt(bare(ws(defkey(SkipWs(s)))),
            keyed(Then(Then(Then(POk(s, << >>),
                       "key", [i \in Suffixes(s) |-> ws(defkey(SkipWs(i)))]),
                       "colon", [i \in Suffixes(s) |-> WsChar(":", i)]),
                       "degree", [i \in Suffixes(s) |-> ws(u32(SkipWs(i)))])))

\* deck_item, returns (is_default, card, desc)
deck_item(s) ==
    LET done(st) ==
            IF st.k # "Ok" THEN st
            ELSE POk(st.rest,
                     [is_default |-> st.val.is_default.tag = "Some",
                      card |-> st.val.id,
                      desc |-> IF st.val.desc.tag = "Some"
                                   THEN Some(st.val.desc.val.str) ELSE None])
    IN  done(Then(Then(Then(POk(s, << >>),
                  "is_default", [i \in Suffixes(s) |->
                      opt(Alt(tag("!", i), tag_no_case("default", i)), i)]),
                  "id", [i \in Suffixes(s) |-> defkey(i)]),
                  "desc", [i \in Suffixes(s) |->
                      opt(Then(Then(POk(i, << >>),
                      "sp", [x \in Suffixes(s) |-> multispace1(x)]),
                      "str", [x \in Suffixes(s) |-> string_parse(x)]),
                      i)]))

\* attr: alt((defkey_value, only_defkey)); value is json::parse
attr(s) ==
    LET defkey_value(st) ==
            IF st.k # "Ok" THEN st
            ELSE POk(st.rest, [key |-> st.val.key, value |-> Some(st.val.value)])
        only_defkey(r) ==
            IF r.k # "Ok" THEN r ELSE POk(r.rest, [key |-> r.val, value |-> None])
    IN  Alt(defkey_value(Then(Then(Then(POk(s, << >>),
                              "key", [i \in Suffixes(s) |-> ws(defkey(SkipWs(i)))]),
                              "eq", [i \in Suffixes(s) |-> char("=", i)]),
                              "value", [i \in Suffixes(s) |-> ws(json_parse(SkipWs(i)))])),
            only_defkey(ws(defkey(SkipWs(s)))))

\* delimited(char('['), attr, char(']'))
AttrBrackets(s) ==
    LET done(st) == IF st.k # "Ok" THEN st ELSE POk(st.rest, st.val.attr)
    IN  done(Then(Then(Then(POk(s, << >>),
                  "open", [i \in Suffixes(s) |-> char("[", i)]),
                  "attr", [i \in Suffixes(s) |-> attr(i)]),
                  "close", [i \in Suffixes(s) |-> char("]", i)]))

\* global_attr
global_attr(s) ==
    LET done(st) == IF st.k # "Ok" THEN st ELSE POk(st.rest, st.val.attr)
    IN  done(Then(Then(POk(s, << >>),
                  "bang", [i \in Suffixes(s) |-> tag("#!", i)]),
                  "attr", [i \in Suffixes(s) |-> AttrBrackets(i)]))

\* local_attr
local_attr(s) ==
    LET done(st) == IF st.k # "Ok" THEN st ELSE POk(st.rest, st.val.attr)
    IN  done(Then(Then(POk(s, << >>),
                  "hash", [i \in Suffixes(s) |-> char("#", i)]),
                  "attr", [i \in Suffixes(s) |-> AttrBrackets(i)]))

(***************************************************************************)
(* nom::multi::separated_list0(sep, f) and many0(f).  The parsers sep and  *)
(* f are given as functions from a text to a result, defined on the texts  *)
(* a sub-parser can be handed: the suffixes of the enclosing parser's      *)
(* input.                                                                  *)
(***************************************************************************)
\* the loop of separated_list0: separator, infinite-loop check, element
RECURSIVE SeparatedListLoop(_, _, _, _)
SeparatedListLoop(sep, f, i, res) ==
    LET sp == sep[i] IN
    IF sp.k = "Error" THEN POk(i, res)
    ELSE IF sp.k # "Ok" THEN sp
    ELSE IF Len(sp.rest) = Len(i) THEN PError(sp.rest, "SeparatedList")
    ELSE LET e == f[sp.rest] IN
         IF e.k = "Error" THEN POk(i, res)
         ELSE IF e.k # "Ok" THEN e
         ELSE SeparatedListLoop(sep, f, e.rest, Append(res, e.val))

separated_list0(sep, f, i) ==
    LET e == f[i] IN
    IF e.k = "Error" THEN POk(i, << >>)
    ELSE IF e.k # "Ok" THEN e
    ELSE SeparatedListLoop(sep, f, e.rest, <<e.val>>)

RECURSIVE Many0Loop(_, _, _)
Many0Loop(f, i, res) ==
    LET e == f[i] IN
    IF e.k = "Error" THEN POk(i, res)
    ELSE IF e.k # "Ok" THEN e
    ELSE IF Len(e.rest) = Len(i) THEN PError(i, "Many0")
    ELSE Many0Loop(f, e.rest, Append(res, e.val))

many0(f, i) == Many0Loop(f, i, << >>)

\* delimited(ws(open), separated_list0(sep, f), ws(close))
DelimitedList(open, sep, f, close, s) ==
    LET done(st) == IF st.k # "Ok" THEN st ELSE POk(st.rest, st.val.list)
    IN  done(Then(Then(Then(POk(s, << >>),
                  "open", [i \in Suffixes(s) |-> WsTag(open, i)]),
                  "list", [i \in Suffixes(s) |-> separated_list0(sep, f, i)]),
                  "close", [i \in Suffixes(s) |-> WsTag(close, i)]))

\* slot
slot(s) ==
    LET done(st) ==
            IF st.k # "Ok" THEN st
            ELSE POk(st.rest,
                     [id |-> st.val.id, label |-> st.val.label,
                      description |-> st.val.description,
                      consumes |-> st.val.kind.tag = "Some"
                                      /\ st.val.kind.val.isConsume.tag = "Some",
                      greedy |-> st.val.kind.tag = "Some"
                                    /\ st.val.kind.val.isGreedy.tag = "Some",
                      requirements |-> IF st.val.requirements.tag = "Some"
                                           THEN st.val.requirements.val ELSE << >>])
    IN  done(Then(Then(Then(Then(Then(Then(POk(s, << >>),
                  "kind", [i \in Suffixes(s) |-> opt(ws(slotkind(SkipWs(i))), i)]),
                  "kw", [i \in Suffixes(s) |-> WsTagNoCase("slot", i)]),
                  "id", [i \in Suffixes(s) |-> ws(defkey(SkipWs(i)))]),
                  "label", [i \in Suffixes(s) |-> ws(string_parse(SkipWs(i)))]),
                  "description", [i \in Suffixes(s) |-> ws(string_parse(SkipWs(i)))]),
                  "requirements", [i \in Suffixes(s) |-> opt(DelimitedList("(", [x \in Suffixes(s) |-> char(",", x)],
                      [x \in Suffixes(s) |-> slotfilter(x)], ")",
                      i),
                      i)]))

(***************************************************************************)
(* aspect.rs                                                               *)
(***************************************************************************)
\* todo!(..) inside a *_from_tokens fold: the panic stops the fold
Todo(acc, msg) == [acc EXCEPT !.panic = msg]

\* aspect_from_tokens: one iteration of `for st in statements`
AspectStep(acc, st) ==
    CASE st.st = "Set" ->
            IF st.key = "id"
                THEN Todo(acc, "Failure! id cannot be set outside of the aspect signature")
            ELSE IF st.key = "label"
                THEN Todo(acc, "Failure! label cannot be set outside of the aspect signature")
            ELSE IF st.key = "description"
                THEN Todo(acc, "Failure! Description cannot be set outside of the aspect signature")
            ELSE IF st.key = "icon"
                THEN IF acc.icon.tag = "Some"
                         THEN Todo(acc, "Failure! Key is already assigned with SET for this aspect")
                     ELSE IF st.val.j = "Str"
                         THEN [acc EXCEPT !.icon = Some(st.val.v)]
                     ELSE Todo(acc, "Failure! Key must be of type 'string'")
            ELSE IF st.key = "verbicon"
                THEN IF acc.verbicon.tag = "Some"
                         THEN Todo(acc, "Failure! Key is already assigned with SET for this aspect")
                     ELSE IF st.val.j = "Str"
                         THEN [acc EXCEPT !.verbicon = Some(st.val.v)]
                     ELSE Todo(acc, "Failure! Key must be of type 'string'")
            ELSE IF st.key \in DOMAIN acc.others
                THEN Todo(acc, "Failure! Key is already assigned with SET for this aspect")
            ELSE [acc EXCEPT !.others = MapInsert(acc.others, st.key, st.val)]
      [] st.st = "Induce" ->
            IF acc.induces.tag = "None"
                THEN [acc EXCEPT !.induces = Some(<<st.key, st.chance>>)]
                ELSE Todo(acc, "Failure! Cannot set key 'induce' multiple times")
      [] st.st = "Xtrigger" ->
            [acc EXCEPT !.xtriggers = Append(acc.xtriggers, st.xtrigger)]

RECURSIVE AspectFold(_, _, _)
AspectFold(statements, i, acc) ==
    IF i > Len(statements) \/ acc.panic # "" THEN acc
    ELSE AspectFold(statements, i + 1, AspectStep(acc, statements[i]))

\* aspect_from_tokens that starts the fold with the icon defaulted to the id
\* instead of None.
aspect_from_tokensIconDefaulted(id, title, desc, hid, decays_to, statements) ==
    LET acc == AspectFold(statements, 1,
                   [icon |-> Some(id), verbicon |-> None, induces |-> None,
                    xtriggers |-> << >>, others |-> EmptyMap, panic |-> ""])
    IN  IF acc.panic # "" THEN PPanic(acc.panic)
        ELSE POk("", [c |-> "Aspect", id |-> id, label |-> title, description |-> desc,
                      icon |-> acc.icon, verbicon |-> acc.verbicon,
                      induces |-> acc.induces, decays_to |-> decays_to,
                      hidden |-> hid, xtriggers |-> acc.xtriggers,
                      others |-> acc.others])

\* aspect_from_tokens
aspect_from_tokens(id, title, desc, hid, decays_to, statements) ==
    LET acc == AspectFold(statements, 1,
                   [icon |-> None, verbicon |-> None, induces |-> None,
                    xtriggers |-> << >>, others |-> EmptyMap, panic |-> ""])
    IN  IF acc.panic # "" THEN PPanic(acc.panic)
        ELSE POk("", [c |-> "Aspect", id |-> id, label |-> title, description |-> desc,
                      icon |-> acc.icon, verbicon |-> acc.verbicon,
                      induces |-> acc.induces, decays_to |-> decays_to,
                      hidden |-> hid, xtriggers |-> acc.xtriggers,
                      others |-> acc.others])

\* aspect_decays
aspect_decays(s) ==
    LET done(st) == IF st.k # "Ok" THEN st ELSE POk(st.rest, st.val.key)
    IN  done(Then(Then(POk(s, << >>),
                  "arrow", [i \in Suffixes(s) |-> WsTag("->", i)]),
                  "key", [i \in Suffixes(s) |-> ws(defkey(SkipWs(i)))]))

\* aspect::parse
aspect_parse(s) ==
    LET built(rest, a) == IF a.k # "Ok" THEN a ELSE POk(rest, a.val)
        done(st) ==
            IF st.k # "Ok" THEN st
            ELSE built(st.rest,
                       aspect_from_tokens(st.val.id, st.val.title, st.val.desc,
                           st.val.hidden.tag = "Some", st.val.decays_to,
                           st.val.statements))
    IN  done(Then(Then(Then(Then(Then(Then(Then(POk(s, << >>),
                  "hidden", [i \in Suffixes(s) |-> opt(ws(hidden(SkipWs(i))), i)]),
                  "kw", [i \in Suffixes(s) |-> WsTagNoCase("aspect", i)]),
                  "id", [i \in Suffixes(s) |-> ws(defkey(SkipWs(i)))]),
                  "title", [i \in Suffixes(s) |-> ws(string_parse(SkipWs(i)))]),
                  "desc", [i \in Suffixes(s) |-> ws(string_parse(SkipWs(i)))]),
                  "decays_to", [i \in Suffixes(s) |-> opt(ws(aspect_decays(SkipWs(i))), i)]),
                  "statements", [i \in Suffixes(s) |->
                      DelimitedList("{", [x \in Suffixes(s) |-> line_ending(x)],
                      [x \in Suffixes(s) |-> ws(aspect_statement(SkipWs(x)))],
                      "}", i)]))

(***************************************************************************)
(* card.rs                                                                 *)
(***************************************************************************)
\* card_decays
card_decays(s) ==
    LET done(st) ==
            IF st.k # "Ok" THEN st ELSE POk(st.rest, <<st.val.key, st.val.lifetime>>)
    IN  done(Then(Then(Then(POk(s, << >>),
                  "arrow", [i \in Suffixes(s) |-> WsTag("->", i)]),
                  "key", [i \in Suffixes(s) |-> opt(ws(defkey(SkipWs(i))), i)]),
                  "lifetime", [i \in Suffixes(s) |-> opt(ws(u32(SkipWs(i))), i)]))

\* card_aspects: `for (k, v) in aspects { map.insert(k, v) }`
RECURSIVE AspectMapFold(_, _, _)
AspectMapFold(aspects, i, map) ==
    IF i > Len(aspects) THEN POk("", map)
    ELSE IF aspects[i][1] \in DOMAIN map
        THEN PPanic("Duplicate aspect assignment: the aspect has already been declared on the card.")
    ELSE AspectMapFold(aspects, i + 1, MapInsert(map, aspects[i][1], aspects[i][2]))

\* card_aspects
card_aspects(s) ==
    LET built(rest, map) == IF map.k # "Ok" THEN map ELSE POk(rest, map.val)
        done(st) ==
            IF st.k # "Ok" THEN st
            ELSE built(st.rest, AspectMapFold(st.val.aspects, 1, EmptyMap))
    IN  done(Then(Then(Then(POk(s, << >>),
                  "open", [i \in Suffixes(s) |-> WsChar("(", i)]),
                  "aspects", [i \in Suffixes(s) |-> separated_list0([x \in Suffixes(s) |-> WsChar(",", x)],
                      [x \in Suffixes(s) |-> ws(card_aspect(SkipWs(x)))],
                      i)]),
                  "close", [i \in Suffixes(s) |-> WsChar(")", i)]))

\* card_from_tokens: one iteration of `for st in statements`
CardStep(acc, st) ==
    CASE st.st = "Set" ->
            IF st.key = "id"
                THEN Todo(acc, "Failure! id cannot be set outside of the aspect signature")
            ELSE IF st.key = "label"
                THEN Todo(acc, "Failure! label cannot be set outside of the aspect signature")
            ELSE IF st.key = "description"
                THEN Todo(acc, "Failure! Description cannot be set outside of the aspect signature")
            ELSE IF st.key = "icon"
                THEN IF acc.icon.tag = "Some"
                         THEN Todo(acc, "Failure! Key is already assigned with SET for this aspect")
                     ELSE IF st.val.j = "Str"
                         THEN [acc EXCEPT !.icon = Some(st.val.v)]
                     ELSE Todo(acc, "Failure! Key must be of type 'string'")
            ELSE IF st.key = "verbicon"
                THEN IF acc.verbicon.tag = "Some"
                         THEN Todo(acc, "Failure! Key is already assigned with SET for this aspect")
                     ELSE IF st.val.j = "Str"
                         THEN [acc EXCEPT !.verbicon = Some(st.val.v)]
                     ELSE Todo(acc, "Failure! Key must be of type 'string'")
            ELSE IF st.key = "resaturate"
                THEN IF acc.verbicon.tag = "Some"
                         THEN Todo(acc, "Failure! Key is already assigned with SET for this aspect")
                     ELSE IF st.val.j = "Boolean"
                         THEN [acc EXCEPT !.resaturate = st.val.v]
                     ELSE Todo(acc, "Failure! Key must be of type 'string'")
            ELSE IF st.key \in DOMAIN acc.others
                THEN Todo(acc, "Failure! Key is already assigned with SET for this aspect")
            ELSE [acc EXCEPT !.others = MapInsert(acc.others, st.key, st.val)]
      [] st.st = "Unique" /\ st.uqgroup.tag = "Some" ->
            IF acc.uniqueness_group.tag = "None"
                THEN [acc EXCEPT !.uniqueness_group = Some(st.uqgroup.val)]
                ELSE Todo(acc, "Failure! Cannot set key 'unique <Value>' multiple times")
      [] st.st = "Unique" /\ st.uqgroup.tag = "None" ->
            IF acc.unique.tag = "None"
                THEN [acc EXCEPT !.unique = Some(TRUE)]
                ELSE Todo(acc, "Failure! Cannot set key 'unique' multiple times")
      [] st.st = "Slot" ->
            IF st.verb \in DOMAIN acc.slots
                THEN [acc EXCEPT !.slots[st.verb] = Append(@, st.slot)]
                ELSE [acc EXCEPT !.slots = MapInsert(acc.slots, st.verb, <<st.slot>>)]
      [] st.st = "Induce" ->
            IF acc.induces.tag = "None"
                THEN [acc EXCEPT !.induces = Some(<<st.key, st.chance>>)]
                ELSE Todo(acc, "Failure! Cannot set key 'induce' multiple times")
      [] st.st = "Xtrigger" ->
            [acc EXCEPT !.xtriggers = Append(acc.xtriggers, st.xtrigger)]

RECURSIVE CardFold(_, _, _)
CardFold(statements, i, acc) ==
    IF i > Len(statements) \/ acc.panic # "" THEN acc
    ELSE CardFold(statements, i + 1, CardStep(acc, statements[i]))

\* card_from_tokens (the local `others` is not a field of Card)
card_from_tokens(id, title, desc, hid, decays_to, lifetime, aspects, statements) ==
    LET acc == CardFold(statements, 1,
                   [resaturate |-> FALSE, icon |-> None, verbicon |-> None,
                    induces |-> None, unique |-> None, uniqueness_group |-> None,
                    slots |-> EmptyMap, xtriggers |-> << >>, others |-> EmptyMap,
                    panic |-> ""])
    IN  IF acc.panic # "" THEN PPanic(acc.panic)
        ELSE POk("", [c |-> "Card", id |-> id, label |-> title, description |-> desc,
                      icon |-> acc.icon, verbicon |-> acc.verbicon,
                      induces |-> acc.induces, decays_to |-> decays_to,
                      hidden |-> hid, aspects |-> aspects, lifetime |-> lifetime,
                      resaturate |-> acc.resaturate,
                      unique |-> IF acc.unique.tag = "Some" THEN acc.unique.val ELSE FALSE,
                      uniqueness_group |-> acc.uniqueness_group,
                      slots |-> acc.slots, xtriggers |-> acc.xtriggers])

\* card::parse
card_parse(s) ==
    LET built(rest, c) == IF c.k # "Ok" THEN c ELSE POk(rest, c.val)
        tokens(v, dl) ==
            card_from_tokens(v.id, v.title,
                IF v.desc.tag = "Some" THEN v.desc.val ELSE "",
                v.hidden.tag = "Some", dl[1], dl[2], v.aspects, v.statements)
        done(st) ==
            IF st.k # "Ok" THEN st
            ELSE built(st.rest,
                       tokens(st.val, IF st.val.decay_lifetime.tag = "Some"
                                          THEN st.val.decay_lifetime.val
                                          ELSE <<None, None>>))
    IN  done(Then(Then(Then(Then(Then(Then(Then(Then(POk(s, << >>),
                  "hidden", [i \in Suffixes(s) |-> opt(ws(hidden(SkipWs(i))), i)]),
                  "kw", [i \in Suffixes(s) |-> WsTagNoCase("card", i)]),
                  "id", [i \in Suffixes(s) |-> ws(defkey(SkipWs(i)))]),
                  "title", [i \in Suffixes(s) |-> ws(string_parse(SkipWs(i)))]),
                  "desc", [i \in Suffixes(s) |-> opt(ws(string_parse(SkipWs(i))), i)]),
                  "aspects", [i \in Suffixes(s) |-> ws(card_aspects(SkipWs(i)))]),
                  "decay_lifetime", [i \in Suffixes(s) |-> opt(ws(card_decays(SkipWs(i))), i)]),
                  "statements", [i \in Suffixes(s) |->
                      DelimitedList("{", [x \in Suffixes(s) |-> line_ending(x)],
                      [x \in Suffixes(s) |-> ws(card_statement(SkipWs(x)))],
                      "}", i)]))

(***************************************************************************)
(* deck.rs, verb.rs, ending.rs                                             *)
(***************************************************************************)
RECURSIVE DeckFold(_, _, _)
DeckFold(contents, i, acc) ==
    IF i > Len(contents) \/ acc.panic # "" THEN acc
    ELSE LET it == contents[i] IN
         IF it.is_default /\ acc.default.tag = "Some"
             THEN Todo(acc, "Cannot set more than one default card in a deck")
         ELSE DeckFold(contents, i + 1,
                  [acc EXCEPT
                      !.default = IF it.is_default THEN Some(it.card) ELSE @,
                      !.is_portal_deck = IF it.desc.tag = "Some" THEN TRUE ELSE @,
                      !.cards = Append(@, <<it.card, it.desc>>)])

\* deck_from_tokens with is_portal_deck left at its initial value
deck_from_tokensNoPortal(id, label, description, contents) ==
    LET acc == DeckFold(contents, 1,
                   [default |-> None, cards |-> << >>, is_portal_deck |-> FALSE,
                    panic |-> ""])
    IN  IF acc.panic # "" THEN PPanic(acc.panic)
        ELSE POk("", [c |-> "Deck", id |-> id,
                      label |-> IF label.tag = "Some" THEN label.val ELSE "",
                      description |-> IF description.tag = "Some"
                                          THEN description.val ELSE "",
                      default |-> acc.default, cards |-> acc.cards,
                      is_portal_deck |-> FALSE])

\* deck_from_tokens
deck_from_tokens(id, label, description, contents) ==
    LET acc == DeckFold(contents, 1,
                   [default |-> None, cards |-> << >>, is_portal_deck |-> FALSE,
                    panic |-> ""])
    IN  IF acc.panic # "" THEN PPanic(acc.panic)
        ELSE POk("", [c |-> "Deck", id |-> id,
                      label |-> IF label.tag = "Some" THEN label.val ELSE "",
                      description |-> IF description.tag = "Some"
                                          THEN description.val ELSE "",
                      default |-> acc.default, cards |-> acc.cards,
                      is_portal_deck |-> acc.is_portal_deck])

\* deck::parse
deck_parse(s) ==
    LET built(rest, d) == IF d.k # "Ok" THEN d ELSE POk(rest, d.val)
        done(st) ==
            IF st.k # "Ok" THEN st
            ELSE built(st.rest,
                       deck_from_tokens(st.val.id, st.val.label, st.val.description,
                                        st.val.contents))
    IN  done(Then(Then(Then(Then(Then(POk(s, << >>),
                  "kw", [i \in Suffixes(s) |-> WsTagNoCase("deck", i)]),
                  "id", [i \in Suffixes(s) |-> ws(defkey(SkipWs(i)))]),
                  "label", [i \in Suffixes(s) |-> opt(ws(string_parse(SkipWs(i))), i)]),
                  "description", [i \in Suffixes(s) |-> opt(ws(string_parse(SkipWs(i))), i)]),
                  "contents", [i \in Suffixes(s) |->
                      DelimitedList("{", [x \in Suffixes(s) |-> line_ending(x)],
                      [x \in Suffixes(s) |-> ws(deck_item(SkipWs(x)))],
                      "}", i)]))

\* delimited(ws(char('(')), ws(slot), ws(char(')')))
VerbSlot(s) ==
    LET done(st) == IF st.k # "Ok" THEN st ELSE POk(st.rest, st.val.slot)
    IN  done(Then(Then(Then(POk(s, << >>),
                  "open", [i \in Suffixes(s) |-> WsChar("(", i)]),
                  "slot", [i \in Suffixes(s) |-> ws(slot(SkipWs(i)))]),
                  "close", [i \in Suffixes(s) |-> WsChar(")", i)]))

\* verb::parse
verb_parse(s) ==
    LET done(st) ==
            IF st.k # "Ok" THEN st
            ELSE POk(st.rest, [c |-> "Verb", id |-> st.val.id, label |-> st.val.label,
                               description |-> st.val.description,
                               slot |-> st.val.slot])
    IN  done(Then(Then(Then(Then(Then(POk(s, << >>),
                  "kw", [i \in Suffixes(s) |-> WsTagNoCase("verb", i)]),
                  "id", [i \in Suffixes(s) |-> ws(defkey(SkipWs(i)))]),
                  "label", [i \in Suffixes(s) |-> ws(string_parse(SkipWs(i)))]),
                  "description", [i \in Suffixes(s) |-> ws(string_parse(SkipWs(i)))]),
                  "slot", [i \in Suffixes(s) |-> opt(VerbSlot(i), i)]))

\* ending::parse: the `flavour` member
EndingMusic(content) ==
    IF "flavour" \notin DOMAIN content THEN POk("", "Grand")
    ELSE LET v == content["flavour"] IN
         IF v.j # "Str" THEN PPanic("Key 'flavour' must have a value of type String")
         ELSE LET str == ToLowercase(v.v) IN
              IF str = "grand" THEN POk("", "Grand")
              ELSE IF str = "melancholy" THEN POk("", "Melancholy")
              ELSE IF str = "vile" THEN POk("", "Vile")
              ELSE PPanic("Value for key 'anim' must be 'grand', 'melancholy', or 'vile'.")

\* ending::parse: the `anim` member
EndingAnimation(content) ==
    IF "anim" \notin DOMAIN content THEN POk("", "DramaticLight")
    ELSE LET v == content["anim"] IN
         IF v.j # "Str" THEN PPanic("Key 'anim' must have a value of type String")
         ELSE LET str == ToLowercase(v.v) IN
              IF str = "dramaticlight" THEN POk("", "DramaticLight")
              ELSE IF str = "dramagiclightcool" THEN POk("", "DramaticLightCool")
              ELSE IF str = "dramaticlightevil" THEN POk("", "DramaticLightEvil")
              ELSE PPanic("Value for key 'anim' must be 'dramaticlight', 'dramagiclightcool', or 'dramaticlightevil'.")

\* ending::parse
ending_parse(s) ==
    LET ending(rest, v, o, music, animation) ==
            IF "image" \notin DOMAIN o THEN PPanic("Key 'image' is required")
            ELSE IF o["image"].j # "Str"
                THEN PPanic("Key 'image' must have a value of type String")
            ELSE IF music.k # "Ok" THEN music
            ELSE IF animation.k # "Ok" THEN animation
            ELSE IF "achievementid" \in DOMAIN o /\ o["achievementid"].j # "Str"
                THEN PPanic("Key 'achievementid' must have a value of type String")
            ELSE POk(rest,
                     [c |-> "Ending", id |-> v.id, label |-> v.label,
                      description |-> v.description, image |-> o["image"].v,
                      music |-> music.val, animation |-> animation.val,
                      achievement |-> IF "achievementid" \in DOMAIN o
                                          THEN o["achievementid"].v ELSE "XXX"])
        done(st) ==
            IF st.k # "Ok" THEN st
            ELSE IF st.val.content.j # "Object"
                THEN PPanic("The content of an 'ending' must be a JSON dictionary!")
            ELSE ending(st.rest, st.val, st.val.content.v,
                        EndingMusic(st.val.content.v),
                        EndingAnimation(st.val.content.v))
    IN  done(Then(Then(Then(Then(Then(POk(s, << >>),
                  "kw", [i \in Suffixes(s) |-> WsTagNoCase("ending", i)]),
                  "id", [i \in Suffixes(s) |-> ws(defkey(SkipWs(i)))]),
                  "label", [i \in Suffixes(s) |-> ws(string_parse(SkipWs(i)))]),
                  "description", [i \in Suffixes(s) |-> ws(string_parse(SkipWs(i)))]),
                  "content", [i \in Suffixes(s) |-> ws(json_parse(SkipWs(i)))]))

(***************************************************************************)
(* recipe::parse and legacy::parse: crucible/parser/recipe.rs and          *)
(* legacy.rs are declared (mod recipe; mod legacy;) but are not among the  *)
(* sources at hand.  They are modelled from the specification's common     *)
(* component shape: keyword, id, title, description and a brace-delimited  *)
(* body; the statements of their bodies are not modelled.                  *)
(***************************************************************************)
SignatureAndEmptyBody(keyword, kind, s) ==
    LET done(st) ==
            IF st.k # "Ok" THEN st
            ELSE POk(st.rest, [c |-> kind, id |-> st.val.id, label |-> st.val.label,
                               description |-> st.val.description])
    IN  done(Then(Then(Then(Then(Then(Then(POk(s, << >>),
                  "kw", [i \in Suffixes(s) |-> WsTagNoCase(keyword, i)]),
                  "id", [i \in Suffixes(s) |-> ws(defkey(SkipWs(i)))]),
                  "label", [i \in Suffixes(s) |-> ws(string_parse(SkipWs(i)))]),
                  "description", [i \in Suffixes(s) |-> ws(string_parse(SkipWs(i)))]),
                  "open", [i \in Suffixes(s) |-> WsTag("{", i)]),
                  "close", [i \in Suffixes(s) |-> WsTag("}", i)]))

recipe_parse(s) == SignatureAndEmptyBody("recipe", "Recipe", s)
legacy_parse(s) == SignatureAndEmptyBody("legacy", "Legacy", s)

(***************************************************************************)
(* Units and the top-level file parser (crucible/parser/mod.rs)            *)
(***************************************************************************)
\* inherit
inherit(s) ==
    LET done(st) == IF st.k # "Ok" THEN st ELSE POk(st.rest, st.val.key)
    IN  done(Then(Then(POk(s, << >>),
                  "kw", [i \in Suffixes(s) |-> WsTagNoCase("from", i)]),
                  "key", [i \in Suffixes(s) |-> ws(defkey(SkipWs(i)))]))

\* component::component_inner
component_inner(s) ==
    Alt(aspect_parse(s), Alt(card_parse(s), Alt(deck_parse(s), Alt(recipe_parse(s),
        Alt(verb_parse(s), Alt(legacy_parse(s), ending_parse(s)))))))

\* component
component(s) ==
    LET done(st) ==
            IF st.k # "Ok" THEN st
            ELSE POk(st.rest, [u |-> "Component", id |-> st.val.inner.id,
                               attrs |-> st.val.attrs, component |-> st.val.inner,
                               inherits |-> st.val.inherits])
    IN  done(Then(Then(Then(POk(s, << >>),
                  "attrs", [i \in Suffixes(s) |-> many0([x \in Suffixes(s) |-> ws(local_attr(SkipWs(x)))],
                      i)]),
                  "inherits", [i \in Suffixes(s) |-> opt(ws(inherit(SkipWs(i))), i)]),
                  "inner", [i \in Suffixes(s) |-> ws(component_inner(SkipWs(i)))]))

\* namespace
namespace(s) ==
    LET done(st) ==
            IF st.k # "Ok" THEN st
            ELSE POk(st.rest, [u |-> "Namespace", id |-> st.val.ns_id,
                               attrs |-> st.val.attrs, units |-> st.val.units])
    IN  done(Then(Then(Then(Then(Then(Then(POk(s, << >>),
                  "attrs", [i \in Suffixes(s) |-> many0([x \in Suffixes(s) |-> ws(local_attr(SkipWs(x)))],
                      i)]),
                  "kw", [i \in Suffixes(s) |-> WsTagNoCase("namespace", i)]),
                  "ns_id", [i \in Suffixes(s) |-> ws(defkey(SkipWs(i)))]),
                  "open", [i \in Suffixes(s) |-> WsChar("{", i)]),
                  "units", [i \in Suffixes(s) |-> many0([x \in Suffixes(s) |-> ws(unit(SkipWs(x)))], i)]),
                  "close", [i \in Suffixes(s) |-> WsChar("}", i)]))

\* unit
unit(s) == Alt(namespace(s), component(s))

\* crucible: the whole text of one file
crucible(text) ==
    LET done(st) ==
            IF st.k # "Ok" THEN st
            ELSE IF st.rest = ""
                THEN POk("", [attributes |-> st.val.attributes, units |-> st.val.units])
            ELSE PFailure(text, "NonEmpty")
    IN  done(Then(Then(Then(POk(text, << >>),
                  "attributes", [i \in Suffixes(text) |-> separated_list0([x \in Suffixes(text) |-> multispace0(x)],
                      [x \in Suffixes(text) |-> global_attr(x)],
                      i)]),
                  "sep", [i \in Suffixes(text) |-> multispace0(i)]),
                  "units", [i \in Suffixes(text) |-> separated_list0([x \in Suffixes(text) |-> multispace0(x)],
                      [x \in Suffixes(text) |-> unit(x)], i)]))

(***************************************************************************)
(* SpecParse: the component parsers applied to source texts.               *)
(*                                                                         *)
(* A source text is assembled from a signature and body lines drawn from   *)
(* small sets, so that a property can speak about what was written (which  *)
(* lines the body holds) as well as about what the parser returned.        *)
(***************************************************************************)
MaxStatements == 2
MaxAspects == 2

SeqUpTo(S, n) == UNION {[1..k -> S] : k \in 0..n}

RECURSIVE Join(_, _)
Join(parts, sep) ==
    IF Len(parts) = 0 THEN ""
    ELSE IF Len(parts) = 1 THEN parts[1]
    ELSE parts[1] \o sep \o Join(Tail(parts), sep)

\* aspect declarations: an optional hidden mark, an optional decay clause and
\* up to MaxStatements body lines
AspectInputs ==
    LET statements ==
            { "set icon=\"a.png\"", "set icon=\"b.png\"", "set verbicon = \"v.png\"",
              "set icon=3", "set colour=\"red\"", "induce dawn 30%",
              "induce dawn 150%", "xtrigger cat -> target" }
        text(h, d, pad, lines) ==
            h \o "aspect lantern \"Lantern\" \"desc\" " \o d \o "{" \o pad
              \o Join(lines, "\n") \o (IF Len(lines) = 0 THEN "" ELSE pad) \o "}"
    IN  { [kind |-> "aspect", hid |-> h, decays |-> d, items |-> << >>, lines |-> ls,
           text |-> text(h, d, pad, ls)] :
              h \in {"", "hidden ", "? "}, d \in {"", "-> ash "}, pad \in {" ", "\n"},
              ls \in SeqUpTo(statements, MaxStatements) }

\* card declarations: up to MaxAspects aspect entries and up to MaxStatements
\* body lines
CardInputs ==
    LET aspects == {"aspectA", "aspectA:2", "lantern"}
        statements ==
            { "set icon=\"a.png\"", "set resaturate=true", "set colour=\"red\"",
              "unique", "unique grp", "xtrigger cat -> target" }
        text(h, items, lines) ==
            h \o "card x \"X\" (" \o Join(items, ", ") \o ") { "
              \o Join(lines, "\n") \o (IF Len(lines) = 0 THEN "" ELSE " ") \o "}"
    IN  { [kind |-> "card", hid |-> h, decays |-> "", items |-> it, lines |-> ls,
           text |-> text(h, it, ls)] :
              h \in {"", "hidden "},
              it \in SeqUpTo(aspects, MaxAspects),
              ls \in SeqUpTo(statements, MaxStatements) }

\* deck declarations: up to MaxEntries entries `[!|default] <card-id>
\* [<description>]`, one per line; items holds what was written in each entry
MaxEntries == 2

DeckInputs ==
    LET entries ==
            { [mark |-> m, id |-> c, desc |-> d] :
                  m \in {"", "!", "default "}, c \in {"foo", "bar"},
                  d \in {"", " \"draw\""} }
              \cup { [mark |-> "", id |-> "defaultfoo", desc |-> ""] }
        written(e) == e.mark \o e.id \o e.desc
        body(es) == Join([i \in 1..Len(es) |-> written(es[i])], "\n")
        text(pad, es) ==
            "deck d \"D\" \"desc\" {" \o pad \o body(es)
              \o (IF Len(es) = 0 THEN "" ELSE pad) \o "}"
    IN  { [kind |-> "deck", hid |-> "", decays |-> "", items |-> es, lines |-> << >>,
           text |-> text(pad, es)] :
              pad \in {" ", "\n"}, es \in SeqUpTo(entries, MaxEntries) }

\* xtrigger statements in the four reaction forms; items holds what was
\* written: the form, the target, the amount and the chance (100 when none
\* is written), t being the text of a number and v its value.  One target
\* begins with a keyword, three chances lie outside 0..=100.
XtriggerInputs ==
    LET targets == {"target", "t1", "spawner"}
        chances == { [t |-> "", v |-> 100], [t |-> " 50%", v |-> 50], [t |-> " 7", v |-> 7],
                     [t |-> " 0%", v |-> 0], [t |-> " 100%", v |-> 100],
                     [t |-> " 101", v |-> 101], [t |-> " 150%", v |-> 150],
                     [t |-> " 300%", v |-> 300] }
        unsigned == { [t |-> "3", v |-> 3], [t |-> "12", v |-> 12] }
        signed == { [t |-> "3", v |-> 3], [t |-> "-2", v |-> 0 - 2], [t |-> "+2", v |-> 2] }
        forms ==
            { [form |-> "spawn", kw |-> kw, amounts |-> unsigned] :
                  kw \in {"spawn ", "SPAWN "} }
              \cup { [form |-> "mutate", kw |-> kw, amounts |-> signed] :
                         kw \in {"mutate ", "Mutate "} }
              \cup { [form |-> "transform", kw |-> "", amounts |-> unsigned],
                     [form |-> "basic", kw |-> "", amounts |-> {[t |-> "", v |-> 1]}] }
        written(f, tg, a, c) ==
            [form |-> f.form, target |-> tg, amount |-> a.v, chance |-> c.v]
        text(f, tg, a, c) ==
            "xtrigger cat -> " \o f.kw \o tg
              \o (IF f.form = "basic" THEN "" ELSE ":" \o a.t) \o c.t
    IN  UNION { { [kind |-> "xtrigger", hid |-> "", decays |-> "",
                   items |-> <<written(f, tg, a, c)>>, lines |-> << >>,
                   text |-> text(f, tg, a, c)] :
                      tg \in targets, a \in f.amounts, c \in chances } : f \in forms }

\* slot definitions: up to two capacity modifiers, one of each kind, in
\* either order and spelling, and an optional list of up to MaxFilters
\* filters; lines holds the modifiers and items the filters as written
MaxFilters == 2

ConsumeWords == {"!", "consume", "CONSUME"}
GreedyWords == {"?", "greedy"}

SlotInputs ==
    LET modifiers ==
            { m \in SeqUpTo(ConsumeWords \cup GreedyWords, 2) :
                  Len(m) = 2 => ((m[1] \in ConsumeWords) # (m[2] \in ConsumeWords)) }
        filters ==
            { [forbid |-> b, element |-> "lantern", amount |-> 2] : b \in BOOLEAN }
        written(f) == (IF f.forbid THEN "!" ELSE "") \o f.element \o ":2"
        list(fs) == " (" \o Join([i \in 1..Len(fs) |-> written(fs[i])], ",") \o ")"
        text(m, l) ==
            Join(m, " ") \o (IF Len(m) = 0 THEN "" ELSE " ") \o "slot s \"S\" \"d\"" \o l
    IN  { [kind |-> "slot", hid |-> "", decays |-> "", items |-> fs, lines |-> m,
           text |-> text(m, list(fs))] :
              m \in modifiers, fs \in SeqUpTo(filters, MaxFilters) }
          \cup { [kind |-> "slot", hid |-> "", decays |-> "", items |-> << >>,
                  lines |-> m, text |-> text(m, "")] : m \in modifiers }

\* files: an optional global attribute, up to MaxUnits units, one per line,
\* and possibly text that is no unit after them; comment is a comment written
\* in front of the first token and plain the text without it
MaxUnits == 2

Comments == {"// note\n", "(* note *) "}

FileInputs ==
    LET units == { "aspect a \"A\" \"d\" { }", "namespace n { aspect b \"B\" \"d\" { } }" }
        plain(at, us, left) ==
            at \o Join(us, "\n")
               \o (IF left = "" \/ Len(us) = 0 THEN "" ELSE "\n") \o left
    IN  { [kind |-> "file", hid |-> "", decays |-> "", items |-> us, lines |-> << >>,
           comment |-> c, leftover |-> left, plain |-> plain(at, us, left),
           text |-> c \o plain(at, us, left)] :
              c \in {""} \cup Comments, at \in {"", "#![a]\n"},
              us \in SeqUpTo(units, MaxUnits), left \in {"", "junk", "}"} }

\* units given as their tokens, with at most one comment written between
\* two tokens (or in front of the first, or behind the last)
UnitInputs ==
    LET tokens ==
            { <<"aspect", "a", "\"A\"", "\"d\"", "{", "}">>,
              <<"namespace", "n", "{", "aspect", "b", "\"B\"", "\"d\"", "{", "}", "}">> }
        commented(ts, c, k) ==
            Join(SubSeq(ts, 1, k) \o <<c>> \o SubSeq(ts, k + 1, Len(ts)), " ")
        unit_input(ts, c, t) ==
            [kind |-> "unit", hid |-> "", decays |-> "", items |-> ts, lines |-> << >>,
             comment |-> c, leftover |-> "", plain |-> Join(ts, " "), text |-> t]
    IN  UNION { { unit_input(ts, "", Join(ts, " ")) }
                  \cup { unit_input(ts, c, commented(ts, c, k)) :
                             c \in Comments, k \in 0..Len(ts) } : ts \in tokens }

\* ending declarations whose content object holds an image, a flavour and
\* an anim; items holds the written flavour and anim
EndingInputs ==
    LET flavours == {"grand", "Grand", "MELANCHOLY", "vile", "loud"}
        anims == { "dramaticlight", "dramaticlightcool", "DramaticLightCool",
                   "dramaticlightevil", "dramagiclightcool", "bright" }
        text(f, a) ==
            "ending e \"E\" \"d\" { \"image\": \"i.png\", \"flavour\": \"" \o f
              \o "\", \"anim\": \"" \o a \o "\" }"
    IN  { [kind |-> "ending", hid |-> "", decays |-> "",
           items |-> <<[flavour |-> f, anim |-> a]>>, lines |-> << >>,
           text |-> text(f, a)] : f \in flavours, a \in anims }

\* statement vectors handed to card_from_tokens: up to MaxStatements `set`
\* statements; lines holds their texts, card_statement yields their tokens
CardTokenInputs ==
    LET statements ==
            { "set resaturate=true", "set resaturate=false", "set icon=\"a.png\"",
              "set verbicon=\"v.png\"", "set colour=\"red\"" }
    IN  { [kind |-> "card_tokens", hid |-> "", decays |-> "",
           items |-> << >>, lines |-> ls, text |-> ""] :
              ls \in SeqUpTo(statements, MaxStatements) }

Returned(fn, r) == [fn |-> fn, k |-> r.k, rest |-> r.rest, val |-> r.val]

InitParse ==
    /\ ProbIdle
    /\ PipeIdle
    /\ RunIdle
    /\ input \in AspectInputs \cup CardInputs \cup DeckInputs \cup XtriggerInputs
                   \cup SlotInputs \cup FileInputs \cup UnitInputs
                   \cup EndingInputs \cup CardTokenInputs
    /\ result = [fn |-> "none", k |-> "None", rest |-> "", val |-> ""]

\* let r = aspect::parse(input)
ParseAspect ==
    /\ input.kind = "aspect"
    /\ result.fn = "none"
    /\ result' = Returned("aspect::parse", aspect_parse(input.text))
    /\ UNCHANGED <<input, probVars, runVars, pipeVars>>

\* let r = card::parse(input)
ParseCard ==
    /\ input.kind = "card"
    /\ result.fn = "none"
    /\ result' = Returned("card::parse", card_parse(input.text))
    /\ UNCHANGED <<input, probVars, runVars, pipeVars>>

\* let r = card_from_tokens(id, title, desc, hidden, decays_to, lifetime,
\*                           aspects, statements)
FoldCard ==
    /\ input.kind = "card_tokens"
    /\ result.fn = "none"
    /\ result' = Returned("card_from_tokens",
                      card_from_tokens("x", "X", "", FALSE, None, None, EmptyMap,
                          [i \in 1..Len(input.lines) |->
                               card_statement(input.lines[i]).val]))
    /\ UNCHANGED <<input, probVars, runVars, pipeVars>>

\* let r = deck::parse(input)
ParseDeck ==
    /\ input.kind = "deck"
    /\ result.fn = "none"
    /\ result' = Returned("deck::parse", deck_parse(input.text))
    /\ UNCHANGED <<input, probVars, runVars, pipeVars>>

\* let r = xtrigger(input)
ParseXtrigger ==
    /\ input.kind = "xtrigger"
    /\ result.fn = "none"
    /\ result' = Returned("xtrigger", xtrigger(input.text))
    /\ UNCHANGED <<input, probVars, runVars, pipeVars>>

\* let r = slot(input)
ParseSlot ==
    /\ input.kind = "slot"
    /\ result.fn = "none"
    /\ result' = Returned("slot", slot(input.text))
    /\ UNCHANGED <<input, probVars, runVars, pipeVars>>

\* let r = crucible(input)
ParseCrucible ==
    /\ input.kind = "file"
    /\ result.fn = "none"
    /\ result' = Returned("crucible", crucible(input.text))
    /\ UNCHANGED <<input, probVars, runVars, pipeVars>>

\* let r = unit(input)
ParseUnit ==
    /\ input.kind = "unit"
    /\ result.fn = "none"
    /\ result' = Returned("unit", unit(input.text))
    /\ UNCHANGED <<input, probVars, runVars, pipeVars>>

\* let r = ending::parse(input)
ParseEnding ==
    /\ input.kind = "ending"
    /\ result.fn = "none"
    /\ result' = Returned("ending::parse", ending_parse(input.text))
    /\ UNCHANGED <<input, probVars, runVars, pipeVars>>

NextParse ==
    \/ ParseAspect
    \/ ParseCard
    \/ FoldCard
    \/ ParseDeck
    \/ ParseXtrigger
    \/ ParseSlot
    \/ ParseCrucible
    \/ ParseUnit
    \/ ParseEnding

SpecParse == InitParse /\ [][NextParse]_vars

\* the body holds two `set` lines that assign one key
DuplicateSet(lines) ==
    \E i, j \in 1..Len(lines) :
        /\ i < j
        /\ set(lines[i]).k = "Ok"
        /\ set(lines[j]).k = "Ok"
        /\ set(lines[i]).val.key = set(lines[j]).val.key

\* the aspect list names one DefKey twice
DuplicateAspect(items) ==
    \E i, j \in 1..Len(items) : i < j /\ defkey(items[i]).val = defkey(items[j]).val

\* C8: an aspect declaration with an id, a title, a description and an empty
\* body parses successfully to an Aspect with hidden=false, icon=None,
\* verbicon=None, induces=None, decays_to=None and no xtriggers.
C8_EmptyAspectDefaults ==
    (/\ result.fn = "aspect::parse"
     /\ input.hid = "" /\ input.decays = "" /\ input.lines = << >>) =>
        /\ result.k = "Ok"
        /\ result.rest = ""
        /\ result.val.c = "Aspect"
        /\ result.val.id = "lantern"
        /\ result.val.label = "Lantern"
        /\ result.val.description = "desc"
        /\ result.val.hidden = FALSE
        /\ result.val.icon = None
        /\ result.val.verbicon = None
        /\ result.val.induces = None
        /\ result.val.decays_to = None
        /\ result.val.xtriggers = << >>

\* aspect::parse has returned for `aspect lantern "Lantern" "desc" { }`.
C8_Witness ==
    /\ result.fn = "aspect::parse"
    /\ input.text = "aspect lantern \"Lantern\" \"desc\" { }"
    /\ result.k = "Ok"
    /\ result.val.hidden = FALSE

\* C9: an aspect body in which two `set` statements assign the same key fails
\* with a duplicate-assignment error result and yields no Aspect.
C9_DuplicateSetIsError ==
    (result.fn = "aspect::parse" /\ DuplicateSet(input.lines)) =>
        /\ result.k \in {"Error", "Failure"}
        /\ result.val = "Failure! Key is already assigned with SET for this aspect"

\* C10: a card whose parenthesized aspect list names one DefKey twice fails to
\* parse because of the duplicate, and no Card is constructed.
C10_DuplicateAspectIsError ==
    (result.fn = "card::parse" /\ DuplicateAspect(input.items)) =>
        /\ result.k \in {"Error", "Failure"}
        /\ result.val = "Duplicate aspect assignment: the aspect has already been declared on the card."

\* the entries of a deck body that carry the default marker
DefaultEntries(items) == {i \in 1..Len(items) : items[i].mark # ""}

\* C11: a deck body in which two or more entries carry the default marker
\* fails with a duplicate-default error result and yields no Deck; a body with
\* exactly one default entry yields a Deck whose default is that entry's card.
C11_DuplicateDefaultIsError ==
    result.fn = "deck::parse" =>
        /\ Cardinality(DefaultEntries(input.items)) >= 2 =>
               /\ result.k \in {"Error", "Failure"}
               /\ result.val = "Cannot set more than one default card in a deck"
        /\ Cardinality(DefaultEntries(input.items)) = 1 =>
               /\ result.k = "Ok"
               /\ \A i \in DefaultEntries(input.items) :
                      result.val.default = Some(input.items[i].id)

\* C12: every successfully parsed deck has is_portal_deck = TRUE exactly when
\* some entry of its body carries a description; a deck with one default
\* entry and no descriptions has is_portal_deck = FALSE.
C12_PortalIffDescription ==
    (result.fn = "deck::parse" /\ result.k = "Ok") =>
        (result.val.is_portal_deck
            <=> \E i \in 1..Len(input.items) : input.items[i].desc # "")

\* deck::parse has returned a portal deck for a body whose entry has a
\* description.
C12_Witness ==
    /\ result.fn = "deck::parse"
    /\ result.k = "Ok"
    /\ \E i \in 1..Len(input.items) : input.items[i].desc # ""
    /\ result.val.is_portal_deck

C14_FilterPolarity ==
    (result.fn = "slot" /\ result.k = "Ok") =>
        /\ Len(result.val.requirements) = Len(input.items)
        /\ \A i \in 1..Len(input.items) :
               /\ result.val.requirements[i].f
                      = (IF input.items[i].forbid THEN "Forbid" ELSE "Accept")
               /\ result.val.requirements[i].element = input.items[i].element
               /\ result.val.requirements[i].amount = input.items[i].amount

\* C15: a slot has consumes = TRUE exactly when `consume` or `!` precedes the
\* slot keyword and greedy = TRUE exactly when `greedy` or `?` precedes it;
\* the modifiers may stand alone or together, in either order and spelling.
C15_SlotModifiers ==
    result.fn = "slot" =>
        /\ result.k = "Ok"
        /\ result.val.consumes
               <=> \E i \in 1..Len(input.lines) : input.lines[i] \in ConsumeWords
        /\ result.val.greedy
               <=> \E i \in 1..Len(input.lines) : input.lines[i] \in GreedyWords

\* the lines of a card body that declare the unique flag or a uniqueness
\* group
UniqueLines(lines) == {i \in 1..Len(lines) : lines[i] \in {"unique", "unique grp"}}

\* C16: the bare `unique` flag and a `unique <group>` uniqueness group are
\* mutually exclusive and each may be declared at most once: no constructed
\* Card has both unique = TRUE and a uniqueness group, and a body declaring
\* both, or either one twice, fails.
C16_UniqueExclusive ==
    result.fn = "card::parse" =>
        /\ result.k = "Ok" =>
               ~(result.val.unique /\ result.val.uniqueness_group.tag = "Some")
        /\ Cardinality(UniqueLines(input.lines)) >= 2 =>
               result.k \in {"Error", "Failure"}

\* C23: a component body may hold any number of statements separated by
\* newlines: an aspect or card body of two or more valid statements on
\* separate lines parses successfully and every statement is folded in, the
\* xtriggers in declaration order.
C23_ManyStatements ==
    (/\ result.fn \in {"aspect::parse", "card::parse"}
     /\ Len(input.lines) >= 2
     /\ \A i \in 1..Len(input.lines) : input.lines[i] = "xtrigger cat -> target") =>
        /\ result.k = "Ok"
        /\ Len(result.val.xtriggers) = Len(input.lines)
        /\ \A i \in 1..Len(input.lines) :
               /\ result.val.xtriggers[i].catalyst = "cat"
               /\ result.val.xtriggers[i].transforms_to = "target"

\* the statements of a card body that assign resaturate
ResaturateLines(lines) ==
    {i \in 1..Len(lines) : lines[i] \in {"set resaturate=true", "set resaturate=false"}}

\* C24: on a Card, `set resaturate` is accepted exactly when resaturate has
\* not been set earlier in that body, whatever icon or verbicon are: a body
\* of distinct statements with one `set resaturate` yields a Card, and a body
\* with a second `set resaturate` ends in a duplicate-assignment error.
C24_ResaturateOnce ==
    result.fn = "card_from_tokens" =>
        /\ (/\ Cardinality(ResaturateLines(input.lines)) = 1
            /\ \A i, j \in 1..Len(input.lines) :
                   i # j => input.lines[i] # input.lines[j]) =>
               /\ result.k = "Ok"
               /\ \A i \in ResaturateLines(input.lines) :
                      result.val.resaturate = (input.lines[i] = "set resaturate=true")
        /\ Cardinality(ResaturateLines(input.lines)) >= 2 =>
               result.k \in {"Error", "Failure"}

\* C25: every `set` of a key the record has no field for is preserved: the
\* Aspect or Card built from a body with one such statement carries an
\* `others` map holding exactly that key with its literal value.
C25_OthersPreserved ==
    (/\ result.fn \in {"aspect::parse", "card::parse", "card_from_tokens"}
     /\ input.lines = <<"set colour=\"red\"">>) =>
        /\ result.k = "Ok"
        /\ "others" \in DOMAIN result.val
        /\ DOMAIN result.val.others = {"colour"}
        /\ result.val.others["colour"] = json_parse("\"red\"").val

\* C26: chance literals must lie in 0..=100: an xtrigger or induce statement
\* whose chance is outside the range is rejected with an error; the xtrigger
\* parser never returns a successful Xtrigger (with the default chance 100,
\* say) for such a statement.
C26_ChanceOutOfRangeRejected ==
    /\ (result.fn = "xtrigger" /\ input.items[1].chance \notin 0..100) =>
           result.k \in {"Error", "Failure"}
    /\ (result.fn = "aspect::parse" /\ input.lines = <<"induce dawn 150%">>) =>
           result.k \in {"Error", "Failure"}

\* C30: the alternatives are tried in the order spawn, mutate, explicit
\* transform, bare transform, and Spawn or Mutate is chosen only for a
\* statement that begins with the whole keyword followed by a target:
\* `xtrigger c -> spawner:2` yields a Transform whose target is the complete
\* id `spawner`, and written with the keyword the same target is spawned.
C30_KeywordIsWholeWord ==
    (/\ result.fn = "xtrigger"
     /\ input.items[1].target = "spawner"
     /\ input.items[1].chance \in 0..100) =>
        /\ result.k = "Ok"
        /\ input.items[1].form \in {"transform", "basic"} =>
               /\ result.val.x = "Transform"
               /\ result.val.transforms_to = "spawner"
               /\ result.val.amount = input.items[1].amount
        /\ input.items[1].form = "spawn" =>
               result.val.x = "Spawn" /\ result.val.creates = "spawner"
        /\ input.items[1].form = "mutate" =>
               result.val.x = "Mutate" /\ result.val.adds_to_catalyst = "spawner"

\* C28: a deck entry is the default exactly when `!` or `default` is written
\* in front of its card id, with or without whitespace in between; an
\* unmarked entry whose id merely begins with `default` is not a default and
\* keeps its full id.  (For bodies of one entry.)
C28_DefaultMarker ==
    (result.fn = "deck::parse" /\ Len(input.items) = 1) =>
        /\ result.k = "Ok"
        /\ Len(result.val.cards) = 1
        /\ result.val.cards[1][1] = input.items[1].id
        /\ result.val.default
               = (IF input.items[1].mark # "" THEN Some(input.items[1].id) ELSE None)

\* C29: in a card's aspect list `a:n` yields aspect a with degree n and a
\* bare `a` yields degree 1: a list of entries with distinct ids, written
\* either way, parses into a map with exactly those ids and degrees.
C29_AspectDegrees ==
    (/\ result.fn = "card::parse"
     /\ input.lines = << >>
     /\ input.items # << >>
     /\ ~DuplicateAspect(input.items)) =>
        /\ result.k = "Ok"
        /\ DOMAIN result.val.aspects
               = {defkey(input.items[i]).val : i \in 1..Len(input.items)}
        /\ \A i \in 1..Len(input.items) :
               result.val.aspects[defkey(input.items[i]).val]
                   = (IF input.items[i] = "aspectA:2" THEN 2 ELSE 1)

\* C17: the top-level parse succeeds only if it consumes the entire input;
\* whenever text remains after the last recognized unit, the parse ends in
\* the fatal error NonEmpty and yields no tree.
C17_LeftoverIsNonEmpty ==
    (result.fn = "crucible" /\ input.comment = "") =>
        /\ result.k = "Ok" => (result.rest = "" /\ input.leftover = "")
        /\ input.leftover # "" => (result.k = "Failure" /\ result.val = "NonEmpty")

\* what the parser returns for the input without its comment
ParsedPlain ==
    IF input.kind = "file" THEN crucible(input.plain) ELSE unit(input.plain)

\* C18: line comments and block comments between tokens are recognized and
\* discarded: a text that differs from a valid text only by a comment parses
\* successfully to the same tree.
C18_CommentsDiscarded ==
    (/\ result.fn \in {"crucible", "unit"}
     /\ input.comment # ""
     /\ ParsedPlain.k = "Ok") =>
        /\ result.k = "Ok"
        /\ result.val = ParsedPlain.val

\* enum EndingMusicKind, enum EndingAnimationKind
EndingMusicKind == {"Grand", "Melancholy", "Vile"}
EndingAnimationKind == {"DramaticLight", "DramaticLightCool", "DramaticLightEvil"}

\* the members of an enumeration that a written value names, whatever its
\* letter case
Named(kinds, written) == {k \in kinds : ToLowercase(k) = ToLowercase(written)}

\* C20: in an ending's content every member of the closed enumerations is
\* accepted regardless of letter case and mapped to its own kind: flavour to
\* Grand, Melancholy or Vile, anim to DramaticLight, DramaticLightCool or
\* DramaticLightEvil; any other string for these keys is an error value.
C20_EndingEnums ==
    result.fn = "ending::parse" =>
        IF /\ Named(EndingMusicKind, input.items[1].flavour) # {}
           /\ Named(EndingAnimationKind, input.items[1].anim) # {}
            THEN /\ result.k = "Ok"
                 /\ result.val.music \in Named(EndingMusicKind, input.items[1].flavour)
                 /\ result.val.animation
                        \in Named(EndingAnimationKind, input.items[1].anim)
            ELSE result.k \in {"Error", "Failure"}

(***************************************************************************)
(* Spec: one run of parser::parse(files) (crucible/parser/mod.rs)          *)
(***************************************************************************)
MaxFiles == 3

\* files whose body sets the id again, or sets icon to a number
SemanticFiles ==
    { "aspect a \"A\" \"d\" { set id=\"x\" }",
      "aspect b \"B\" \"d\" { set icon=3 }" }

\* a file that std::fs::read_to_string cannot read, and readable ones: empty,
\* attributes only, an aspect, a card in a namespace, an aspect inheriting
\* from an id no file defines, the semantic ones, and one that does not parse
Files ==
    {[readable |-> FALSE, text |-> ""]}
        \cup { [readable |-> TRUE, text |-> t] :
                   t \in { "",
                           "#![mod]\n",
                           "aspect lantern \"Lantern\" \"desc\" { }\n",
                           "namespace ns { card foo \"Foo\" () { } }",
                           "from missing.id aspect child \"Child\" \"desc\" { }",
                           "aspect { junk" } \cup SemanticFiles }

\* Crucible::new: read_to_string(file)?, crucible(raw_data)?, println!, todo!()
Crucible_new(file) ==
    LET new(pdata) ==
            IF pdata.k = "Panic" THEN [k |-> "Panic", val |-> pdata.val]
            ELSE IF pdata.k # "Ok" THEN [k |-> "Err", val |-> <<pdata.k, pdata.val>>]
            ELSE [k |-> "Panic", val |-> "not yet implemented"]
    IN  IF ~file.readable THEN [k |-> "Err", val |-> <<"io", "NotFound">>]
        ELSE new(crucible(file.text))

\* Crucible::merge: unimplemented!()
merge(self, other) == [k |-> "Panic", val |-> "not implemented"]

Init ==
    /\ ProbIdle
    /\ PipeIdle
    /\ ParseIdle
    /\ files \in SeqUpTo(Files, MaxFiles)
    /\ idx = 1
    /\ master = Crucible_empty
    /\ errored = FALSE
    /\ log = << >>
    /\ pc = "loop"

\* one iteration of `for file in files`
Iterate ==
    /\ pc = "loop"
    /\ idx <= Len(files)
    /\ LET m(c) == merge(master, c.val)
           body(c) ==
               IF c.k = "Panic" \/ (c.k = "Ok" /\ m(c).k = "Panic")
                   THEN /\ pc' = "panicked"
                        /\ UNCHANGED <<idx, master, errored, log>>
               ELSE IF c.k = "Ok" /\ m(c).k = "Ok"
                   THEN /\ master' = m(c).val
                        /\ idx' = idx + 1
                        /\ UNCHANGED <<errored, log, pc>>
               ELSE IF c.k = "Ok"
                   THEN /\ errored' = TRUE
                        /\ log' = Append(log, [file |-> idx, phase |-> "merging",
                                                err |-> m(c).val])
                        /\ idx' = idx + 1
                        /\ UNCHANGED <<master, pc>>
               ELSE /\ errored' = TRUE
                    /\ log' = Append(log, [file |-> idx, phase |-> "parsing",
                                            err |-> c.val])
                    /\ idx' = idx + 1
                    /\ UNCHANGED <<master, pc>>
       IN  body(Crucible_new(files[idx]))
    /\ UNCHANGED <<files, probVars, parseVars, pipeVars>>

\* after the loop: bail!(..) if errored, else Ok(master)
Finish ==
    /\ pc = "loop"
    /\ idx > Len(files)
    /\ pc' = IF errored THEN "err" ELSE "ok"
    /\ UNCHANGED <<files, idx, master, errored, log, probVars, parseVars, pipeVars>>

Next ==
    \/ Iterate
    \/ Finish

Spec == Init /\ [][Next]_vars

\* the run has ended: parse returned or unwound
Ended == pc \in {"ok", "err", "panicked"}

\* the files on which Crucible::new has been called
Attempted == IF pc = "panicked" THEN 1..idx ELSE 1..(idx - 1)

\* the files whose error has been reported
Failed == {log[i].file : i \in 1..Len(log)}

\* the fully-qualified DefKeys of the components of a unit tree
RECURSIVE QualifiedIds(_, _)
QualifiedIds(u, prefix) ==
    IF u.u = "Component" THEN {<<u.component.c, prefix \o u.id>>}
    ELSE UNION {QualifiedIds(u.units[i], prefix \o u.id \o ".") : i \in 1..Len(u.units)}

\* the `from` targets of the components of a unit tree
RECURSIVE InheritTargets(_)
InheritTargets(u) ==
    IF u.u = "Component"
        THEN IF u.inherits.tag = "Some" THEN {u.inherits.val} ELSE {}
    ELSE UNION {InheritTargets(u.units[i]) : i \in 1..Len(u.units)}

\* what a file declares, read off its text with the unit parser
Defines(file) ==
    IF file.readable /\ unit(file.text).k = "Ok"
        THEN QualifiedIds(unit(file.text).val, "") ELSE {}
Inherits(file) ==
    IF file.readable /\ unit(file.text).k = "Ok"
        THEN InheritTargets(unit(file.text).val) ELSE {}

AllDefined == UNION {{d[2] : d \in Defines(files[i])} : i \in 1..Len(files)}

\* C3: a failure to read or parse one file does not stop the run: every later
\* file is still read and parsed, and the failing file's error is recorded.
C3_LaterFilesAttempted ==
    Ended => \A i \in Failed : \A j \in (i + 1)..Len(files) : j \in Attempted

\* C4: a run has exactly two outcomes: Ok with a Corpus when no file failed
\* and no merge failed, or failure whenever an error occurred; never a Corpus
\* on failure.
C4_TwoOutcomes ==
    Ended => \/ pc = "ok" /\ ~errored /\ log = << >>
             \/ pc = "err" /\ errored /\ log # << >>

\* C5: when two merged files define a component with the same fully-qualified
\* DefKey in the same per-kind map, the run reports a DuplicateDefinition
\* error for that key.
C5_DuplicateDefinitionReported ==
    (/\ Ended
     /\ \E i, j \in Attempted :
            i < j /\ Defines(files[i]) \cap Defines(files[j]) # {}) =>
        /\ pc = "err"
        /\ \E n \in 1..Len(log) : log[n].phase = "merging"
                                   /\ log[n].err = "DuplicateDefinition"

\* C6: a component declared `from <id>` whose target no merged file defines
\* makes the run fail with UnresolvedInheritance, raised after the merges and
\* never by a per-file parse.
C6_UnresolvedInheritanceReported ==
    (/\ Ended
     /\ Attempted = 1..Len(files)
     /\ \E i \in 1..Len(files) : ~(Inherits(files[i]) \subseteq AllDefined)) =>
        /\ pc = "err"
        /\ \E n \in 1..Len(log) : log[n].phase # "parsing"
                                   /\ log[n].err = "UnresolvedInheritance"

\* C7: when a component's grammar matches but its content violates a record
\* invariant, the file's parse ends with a semantic Failure value recorded as
\* that file's error; the run does not crash and the other files are still
\* processed.
C7_SemanticFailureRecorded ==
    \A i \in 1..Len(files) :
        (Ended /\ files[i].readable /\ files[i].text \in SemanticFiles) =>
            /\ pc # "panicked"
            /\ \E n \in 1..Len(log) : log[n].file = i /\ log[n].err[1] = "Failure"
            /\ Attempted = 1..Len(files)

\* the keys under which master holds components
CorpusKeys == UNION {QualifiedIds(master.units[n], "") : n \in 1..Len(master.units)}

\* every file is readable and is one valid unit, no component inherits and
\* no two files define the same key
ValidRun ==
    /\ files # << >>
    /\ \A i \in 1..Len(files) :
           /\ Defines(files[i]) # {}
           /\ Inherits(files[i]) = {}
           /\ \A j \in 1..Len(files) :
                  i # j => Defines(files[i]) \cap Defines(files[j]) = {}

\* C19: every component of a merged file is held under its fully-qualified
\* DefKey: the ids of the enclosing namespaces and its own id joined with
\* `.`; a component declared at top level keeps its bare id.
C19_QualifiedKeys ==
    (Ended /\ ValidRun) =>
        \A i \in 1..Len(files) : Defines(files[i]) \subseteq CorpusKeys

(***************************************************************************)
(* SpecPipe: one call of extensions::execute_pipeline(input)               *)
(* (src/extensions/mod.rs, mothlib/extensions/pipeline.rs,                 *)
(*  mothlib/extensions/strongtype/mod.rs)                                  *)
(*                                                                         *)
(* Three tokio tasks run concurrently: the feeder spawned by               *)
(* Pipeline::start, the strongtype stage spawned by PipelineStep::start,   *)
(* and execute_pipeline itself, which first collects the output channel    *)
(* until it is closed and only then reads the stage's error channel.       *)
(* A tokio mpsc channel of capacity n holds n messages; send waits while   *)
(* it is full, recv waits while it is empty and a sender is alive, and     *)
(* returns None once it is empty and every sender is dropped.              *)
(***************************************************************************)
MSPC_CHANNEL_SIZE == 127

MaxRecords == 2
MaxOverflow == 1

\* The soft types a record is declared with: the first root key of its file.
SoftTypes == {"decks", "elements", "legacies", "recipes", "verbs", "endings",
              "aspects", "cultures"}

\* struct Record, the i-th of the vector, declared with soft type t
Record(i, t) == [meta |-> [source_meta |-> i, soft_type |-> t]]

\* The vectors handed to execute_pipeline: every vector of at most MaxRecords
\* records, and vectors of unknown-type records as long as a channel and longer.
PipeInputs ==
    { [i \in 1..Len(ts) |-> Record(i, ts[i])] : ts \in SeqUpTo(SoftTypes, MaxRecords) }
    \cup { [i \in 1..n |-> Record(i, "aspects")] :
             n \in MSPC_CHANNEL_SIZE..(MSPC_CHANNEL_SIZE + MaxOverflow) }

\* A stage that also lets the commented-out derived type through.
execute_itemAspectsPassed(r) ==
    IF r.meta.soft_type \in {"decks", "elements", "legacies", "recipes", "verbs",
                             "endings", "aspects"}
        THEN [k |-> "Ok", val |-> <<r>>]
        ELSE [k |-> "Err", val |-> [msg |-> "Unknown type", soft_type |-> r.meta.soft_type]]

\* strongtype::execute_item
execute_item(r) ==
    IF r.meta.soft_type \in {"decks", "elements", "legacies", "recipes", "verbs",
                             "endings"}
        THEN [k |-> "Ok", val |-> <<r>>]
        ELSE [k |-> "Err", val |-> [msg |-> "Unknown type", soft_type |-> r.meta.soft_type]]

\* PipelineBuilder::map, build and Pipeline::start have run: the channels
\* exist and are empty, the three tasks are at their first await.
InitPipe ==
    /\ ProbIdle
    /\ ParseIdle
    /\ RunIdle
    /\ pinput \in PipeInputs
    /\ fed = 0
    /\ feeder = "run"
    /\ from_last_step = << >>
    /\ held = << >>
    /\ stage = "recv"
    /\ to_next_step = << >>
    /\ to_errs = << >>
    /\ records = << >>
    /\ errlog = << >>
    /\ main = "collect"

\* The feeder: `tx.send(r).await` for the next record of input.  The send
\* cannot fail, the stage keeps the receiver until the channel is closed.
Feed ==
    /\ feeder = "run"
    /\ fed < Len(pinput)
    /\ Len(from_last_step) < MSPC_CHANNEL_SIZE
    /\ from_last_step' = Append(from_last_step, pinput[fed + 1])
    /\ fed' = fed + 1
    /\ UNCHANGED <<pinput, feeder, held, stage, to_next_step, to_errs, records,
                   errlog, main>>

\* The feeder's loop is over: the task ends and drops tx.
FeederEnd ==
    /\ feeder = "run"
    /\ fed = Len(pinput)
    /\ feeder' = "done"
    /\ UNCHANGED <<pinput, fed, from_last_step, held, stage, to_next_step,
                   to_errs, records, errlog, main>>

\* pipe: `input.recv().await` yields Some(r), and execute_item(r) is matched.
PipeRecv ==
    /\ stage = "recv"
    /\ from_last_step # << >>
    /\ held' = execute_item(Head(from_last_step))
    /\ from_last_step' = Tail(from_last_step)
    /\ stage' = "send"
    /\ UNCHANGED <<pinput, fed, feeder, to_next_step, to_errs, records, errlog, main>>

\* pipe, Ok(records): `output.send(record).await` for the next record.  The
\* collector keeps the receiver until the stage is done, so the send is Ok.
PipeSendRecord ==
    /\ stage = "send"
    /\ held.k = "Ok"
    /\ Len(to_next_step) < MSPC_CHANNEL_SIZE
    /\ to_next_step' = Append(to_next_step, Head(held.val))
    /\ IF Len(held.val) > 1
          THEN held' = [held EXCEPT !.val = Tail(held.val)] /\ stage' = "send"
          ELSE held' = << >> /\ stage' = "recv"
    /\ UNCHANGED <<pinput, fed, feeder, from_last_step, to_errs, records, errlog, main>>

\* pipe, Err(e): `errors.send(e.context(..)).await`.
PipeSendError ==
    /\ stage = "send"
    /\ held.k = "Err"
    /\ Len(to_errs) < MSPC_CHANNEL_SIZE
    /\ to_errs' = Append(to_errs, held.val)
    /\ held' = << >>
    /\ stage' = "recv"
    /\ UNCHANGED <<pinput, fed, feeder, from_last_step, to_next_step, records,
                   errlog, main>>

\* pipe: `input.recv().await` yields None, the task ends and drops output
\* and errors.
PipeEnd ==
    /\ stage = "recv"
    /\ from_last_step = << >>
    /\ feeder = "done"
    /\ stage' = "done"
    /\ UNCHANGED <<pinput, fed, feeder, from_last_step, held, to_next_step,
                   to_errs, records, errlog, main>>

\* execute_pipeline: `while let Some(record) = rx.recv().await`
Collect ==
    /\ main = "collect"
    /\ to_next_step # << >>
    /\ records' = Append(records, Head(to_next_step))
    /\ to_next_step' = Tail(to_next_step)
    /\ UNCHANGED <<pinput, fed, feeder, from_last_step, held, stage, to_errs,
                   errlog, main>>

\* execute_pipeline: rx.recv() yields None, the loop over errs begins.
CollectEnd ==
    /\ main = "collect"
    /\ to_next_step = << >>
    /\ stage = "done"
    /\ main' = "errors"
    /\ UNCHANGED <<pinput, fed, feeder, from_last_step, held, stage, to_next_step,
                   to_errs, records, errlog>>

\* execute_pipeline: `while let Some(e) = err_rx.recv().await`
DrainError ==
    /\ main = "errors"
    /\ to_errs # << >>
    /\ errlog' = Append(errlog, Head(to_errs))
    /\ to_errs' = Tail(to_errs)
    /\ UNCHANGED <<pinput, fed, feeder, from_last_step, held, stage, to_next_step,
                   records, main>>

\* execute_pipeline: err_rx.recv() yields None; bail! if has_errs, else Ok.
Return ==
    /\ main = "errors"
    /\ to_errs = << >>
    /\ stage = "done"
    /\ main' = IF errlog # << >> THEN "err" ELSE "ok"
    /\ UNCHANGED <<pinput, fed, feeder, from_last_step, held, stage, to_next_step,
                   to_errs, records, errlog>>

FeederTask == Feed \/ FeederEnd
StageTask == PipeRecv \/ PipeSendRecord \/ PipeSendError \/ PipeEnd
MainTask == Collect \/ CollectEnd \/ DrainError \/ Return

NextPipe ==
    \/ FeederTask /\ UNCHANGED <<probVars, parseVars, runVars>>
    \/ StageTask /\ UNCHANGED <<probVars, parseVars, runVars>>
    \/ MainTask /\ UNCHANGED <<probVars, parseVars, runVars>>

SpecPipe == InitPipe /\ [][NextPipe]_vars

\* The tokio scheduler polls every task that can make progress.
SpecPipeFair ==
    /\ InitPipe
    /\ [][NextPipe]_vars
    /\ WF_vars(FeederTask /\ UNCHANGED <<probVars, parseVars, runVars>>)
    /\ WF_vars(StageTask /\ UNCHANGED <<probVars, parseVars, runVars>>)
    /\ WF_vars(MainTask /\ UNCHANGED <<probVars, parseVars, runVars>>)

\* The records the stage has taken and finished with.
Handled ==
    SubSeq(pinput, 1, fed - Len(from_last_step) - (IF stage = "send" THEN 1 ELSE 0))

\* Everything the stage has put on its output and on its error channel.
EmittedRecords == records \o to_next_step
EmittedErrors == errlog \o to_errs

C21_BaseTypes == {"decks", "elements", "legacies", "recipes", "verbs", "endings"}
C21_IsBase(r) == r.meta.soft_type \in C21_BaseTypes
C21_IsOther(r) == r.meta.soft_type \notin C21_BaseTypes

\* C21: the strongtype stage passes base types through untouched.  Of the
\* records it has finished with, those declared decks, elements, legacies,
\* recipes, verbs or endings are on the output, unchanged, once each and in
\* order, and none of them left an error; every other record left exactly
\* one error, naming its type, and no record.
C21_BaseTypesPassThrough ==
    /\ EmittedRecords = SelectSeq(Handled, C21_IsBase)
    /\ LET others == SelectSeq(Handled, C21_IsOther)
       IN /\ Len(EmittedErrors) = Len(others)
          /\ \A i \in 1..Len(others) :
                EmittedErrors[i].soft_type = others[i].meta.soft_type

\* C21: a run over a vector of a base-type record and another one has ended,
\* one record collected and one error reported.
C21_Witness ==
    /\ main = "err"
    /\ Len(records) = 1
    /\ Len(errlog) = 1
    /\ Len(pinput) = 2

\* C27: every call of execute_pipeline on a finite vector returns, Ok or Err.
C27_EventuallyReturns == <>(main \in {"ok", "err"})

====
